---- MODULE Spec2Model ----
(***************************************************************************)
(* Model of buildTraceHierarchy (services/trace/types.ts): the conversion  *)
(* of raw trace spans to canonical TraceSpan objects, the parent/child     *)
(* link pass, the child sort pass and the descendant count; of a repeated  *)
(* call on the same input; and of calculateDuration as formatSpanHierarchy *)
(* calls it on a span of the result.                                       *)
(*                                                                         *)
(* JavaScript values are records [t, s, n, e]: t is the typeof tag, s the  *)
(* characters of a string, n a number, e the ordered entries <<key, value>>*)
(* of an object.  Strings are sequences of one-character strings so that   *)
(* startsWith, substring, length and concatenation are computed.           *)
(* Objects of the heap (the TraceSpan objects) are named by their index in *)
(* traceSpans; childSpans, rootSpans and spanMap hold such references.     *)
(***************************************************************************)
EXTENDS Integers, Sequences, FiniteSets

VARIABLES
    spans,              \* the raw span list passed to buildTraceHierarchy
    projectId,          \* argument projectId
    traceId,            \* argument traceId
    pc,                 \* position in buildTraceHierarchy
    idx,                \* index of the running loop
    traceSpans,         \* the TraceSpan objects built so far (without childSpans)
    spanMap,            \* Map<string, TraceSpan>: span id -> object reference
    childSpans,         \* childSpans[i]: the childSpans array of object i
    rootSpans,          \* the rootSpans array (object references)
    stack,              \* call stack of countDescendants: frames [s, c]
    totalDescendants,   \* the counter of the running countDescendants walk
    result,             \* the returned TraceData
    previous,           \* what the previous call on the same input returned
    duration,           \* the string returned by calculateDuration
    markdown            \* the report returned by formatTraceData

vars == <<spans, projectId, traceId, pc, idx, traceSpans, spanMap, childSpans,
          rootSpans, stack, totalDescendants, result, previous, duration, markdown,
          markdown>>

-----------------------------------------------------------------------------
(* Bounds of the checked inputs.                                           *)

MaxSpans == 3
MaxSortSpans == 4
MaxLiveSpans == 2
MaxDepth == 6
MaxPairSpans == 2

-----------------------------------------------------------------------------
(* JavaScript values.                                                      *)

Undef == [t |-> "undefined", s |-> <<>>, n |-> 0, e |-> <<>>]
Str(x) == [t |-> "string", s |-> x, n |-> 0, e |-> <<>>]
Num(k) == [t |-> "number", s |-> <<>>, n |-> k, e |-> <<>>]
Bool(b) == [t |-> "boolean", s |-> <<>>, n |-> IF b THEN 1 ELSE 0, e |-> <<>>]
Obj(entries) == [t |-> "object", s |-> <<>>, n |-> 0, e |-> entries]
Null == [t |-> "null", s |-> <<>>, n |-> 0, e |-> <<>>]

Truthy(v) ==
    CASE v.t = "string" -> v.s # <<>>
      [] v.t = "number" -> v.n # 0
      [] v.t = "boolean" -> v.n = 1
      [] v.t = "object" -> TRUE
      [] OTHER -> FALSE

(* a || b *)
Or(a, b) == IF Truthy(a) THEN a ELSE b

RECURSIVE Lookup(_, _, _)
Lookup(entries, key, i) ==
    IF i > Len(entries) THEN Undef
    ELSE IF entries[i][1] = key THEN entries[i][2]
    ELSE Lookup(entries, key, i + 1)

(* o[key] for a value o that is not null or undefined *)
Get(o, key) == IF o.t = "object" THEN Lookup(o.e, key, 1) ELSE Undef

(* an assignment that leaves the value of an existing key alone *)
PutKeepFirst(entries, key, value) ==
    IF \E i \in 1..Len(entries) : entries[i][1] = key
    THEN entries
    ELSE Append(entries, <<key, value>>)

(* obj[key] = value on an ordered map: an existing key keeps its place *)
Put(entries, key, value) ==
    IF \E i \in 1..Len(entries) : entries[i][1] = key
    THEN [i \in 1..Len(entries) |->
             IF entries[i][1] = key THEN <<key, value>> ELSE entries[i]]
    ELSE Append(entries, <<key, value>>)

StartsWith(str, prefix) ==
    /\ Len(str) >= Len(prefix)
    /\ SubSeq(str, 1, Len(prefix)) = prefix

(* str.substring(0, k) *)
Substring0(str, k) == SubSeq(str, 1, IF Len(str) < k THEN Len(str) ELSE k)

DigitChar(d) == <<"0", "1", "2", "3", "4", "5", "6", "7", "8", "9">>[d + 1]

RECURSIVE NatToString(_)
NatToString(k) ==
    IF k < 10 THEN <<DigitChar(k)>>
    ELSE NatToString(k \div 10) \o <<DigitChar(k % 10)>>

(* String(v) and `${v}` for the values of the model *)
JsString(v) ==
    CASE v.t = "string" -> v.s
      [] v.t = "number" -> IF v.n < 0 THEN <<"-">> \o NatToString(-v.n)
                           ELSE NatToString(v.n)
      [] v.t = "boolean" -> IF v.n = 1 THEN <<"t", "r", "u", "e">>
                            ELSE <<"f", "a", "l", "s", "e">>
      [] v.t = "object" -> <<"[", "o", "b", "j", "e", "c", "t", " ",
                             "O", "b", "j", "e", "c", "t", "]">>
      [] v.t = "null" -> <<"n", "u", "l", "l">>
      [] OTHER -> <<"u", "n", "d", "e", "f", "i", "n", "e", "d">>

-----------------------------------------------------------------------------
(* new Date(string).getTime() for the ISO forms YYYY-MM-DD and             *)
(* YYYY-MM-DDTHH:mm:ss.sssZ (both UTC).  Any other string of the checked   *)
(* inputs is an invalid date (NaN).                                        *)

IsDigit(c) == c \in {"0", "1", "2", "3", "4", "5", "6", "7", "8", "9"}

DigitValue(c) ==
    CASE c = "0" -> 0 [] c = "1" -> 1 [] c = "2" -> 2 [] c = "3" -> 3
      [] c = "4" -> 4 [] c = "5" -> 5 [] c = "6" -> 6 [] c = "7" -> 7
      [] c = "8" -> 8 [] c = "9" -> 9

IsLeapYear(y) == (y % 4 = 0) /\ ((y % 100 # 0) \/ (y % 400 = 0))

DaysInMonth(y, m) ==
    IF m = 2 THEN (IF IsLeapYear(y) THEN 29 ELSE 28)
    ELSE IF m \in {4, 6, 9, 11} THEN 30 ELSE 31

RECURSIVE DaysBeforeMonth(_, _)
DaysBeforeMonth(y, m) ==
    IF m = 1 THEN 0 ELSE DaysBeforeMonth(y, m - 1) + DaysInMonth(y, m - 1)

DayFromYear(y) ==
    365 * (y - 1970) + ((y - 1969) \div 4) - ((y - 1901) \div 100)
        + ((y - 1601) \div 400)

NaN == [nan |-> TRUE, ms |-> 0]

Digits2(str, i) == 10 * DigitValue(str[i]) + DigitValue(str[i + 1])

(* milliseconds from 1970-01-01 to the start of the day str[1..10] names *)
ParseDay(str) ==
    IF /\ str[5] = "-" /\ str[8] = "-"
       /\ \A i \in {1, 2, 3, 4, 6, 7, 9, 10} : IsDigit(str[i])
    THEN LET y == 100 * Digits2(str, 1) + Digits2(str, 3)
             m == Digits2(str, 6)
             d == Digits2(str, 9)
         IN  IF m \in 1..12 /\ d \in 1..DaysInMonth(y, m)
             THEN [nan |-> FALSE,
                   ms |-> 86400000 * (DayFromYear(y) + DaysBeforeMonth(y, m) + d - 1)]
             ELSE NaN
    ELSE NaN

(* milliseconds into the day of the time str[12..23] names *)
ParseTimeOfDay(str) ==
    IF /\ str[14] = ":" /\ str[17] = ":" /\ str[20] = "."
       /\ \A i \in {12, 13, 15, 16, 18, 19, 21, 22, 23} : IsDigit(str[i])
       /\ Digits2(str, 12) < 24 /\ Digits2(str, 15) < 60 /\ Digits2(str, 18) < 60
    THEN [nan |-> FALSE,
          ms |-> 3600000 * Digits2(str, 12) + 60000 * Digits2(str, 15)
                   + 1000 * Digits2(str, 18) + 100 * DigitValue(str[21])
                   + Digits2(str, 22)]
    ELSE NaN

(* the time value of a day and a time of day, NaN if either is invalid *)
MakeDate(day, time) ==
    IF day.nan \/ time.nan THEN NaN ELSE [nan |-> FALSE, ms |-> day.ms + time.ms]

ParseDate(str) ==
    IF Len(str) = 10 THEN ParseDay(str)
    ELSE IF Len(str) = 24 /\ str[11] = "T" /\ str[24] = "Z"
    THEN MakeDate(ParseDay(str), ParseTimeOfDay(str))
    ELSE NaN

(* new Date(v).getTime() *)
GetTime(v) ==
    CASE v.t = "string" -> ParseDate(v.s)
      [] v.t = "number" -> [nan |-> FALSE, ms |-> v.n]
      [] OTHER -> NaN

-----------------------------------------------------------------------------
(* Property names, label keys and string literals of buildTraceHierarchy.  *)

Field ==
    [ spanId |-> <<"s", "p", "a", "n", "I", "d">>,
      name |-> <<"n", "a", "m", "e">>,
      displayName |-> <<"d", "i", "s", "p", "l", "a", "y", "N", "a", "m", "e">>,
      value |-> <<"v", "a", "l", "u", "e">>,
      startTime |-> <<"s", "t", "a", "r", "t", "T", "i", "m", "e">>,
      endTime |-> <<"e", "n", "d", "T", "i", "m", "e">>,
      parentSpanId |-> <<"p", "a", "r", "e", "n", "t", "S", "p", "a", "n", "I", "d">>,
      kind |-> <<"k", "i", "n", "d">>,
      spanKind |-> <<"s", "p", "a", "n", "K", "i", "n", "d">>,
      status |-> <<"s", "t", "a", "t", "u", "s">>,
      code |-> <<"c", "o", "d", "e">>,
      labels |-> <<"l", "a", "b", "e", "l", "s">>,
      attributes |-> <<"a", "t", "t", "r", "i", "b", "u", "t", "e", "s">>,
      attributeMap |-> <<"a", "t", "t", "r", "i", "b", "u", "t", "e", "M", "a", "p">>,
      childSpans |-> <<"c", "h", "i", "l", "d", "S", "p", "a", "n", "s">>,
      operation |-> <<"o", "p", "e", "r", "a", "t", "i", "o", "n">>,
      operationName |-> <<"o", "p", "e", "r", "a", "t", "i", "o", "n", "N", "a", "m", "e">>,
      description |-> <<"d", "e", "s", "c", "r", "i", "p", "t", "i", "o", "n">>,
      type |-> <<"t", "y", "p", "e">>,
      method |-> <<"m", "e", "t", "h", "o", "d">>,
      rpcName |-> <<"r", "p", "c", "N", "a", "m", "e">>,
      stringValue |-> <<"s", "t", "r", "i", "n", "g", "V", "a", "l", "u", "e">>,
      intValue |-> <<"i", "n", "t", "V", "a", "l", "u", "e">>,
      boolValue |-> <<"b", "o", "o", "l", "V", "a", "l", "u", "e">> ]

Label ==
    [ httpPath |-> <<"/", "h", "t", "t", "p", "/", "p", "a", "t", "h">>,
      httpMethod |-> <<"/", "h", "t", "t", "p", "/", "m", "e", "t", "h", "o", "d">>,
      httpUrl |-> <<"/", "h", "t", "t", "p", "/", "u", "r", "l">>,
      httpStatusCode |-> <<"/", "h", "t", "t", "p", "/", "s", "t", "a", "t", "u", "s", "_", "c", "o", "d", "e">>,
      component |-> <<"/", "c", "o", "m", "p", "o", "n", "e", "n", "t">>,
      dbStatement |-> <<"/", "d", "b", "/", "s", "t", "a", "t", "e", "m", "e", "n", "t">>,
      dbSystem |-> <<"/", "d", "b", "/", "s", "y", "s", "t", "e", "m">>,
      agent |-> <<"g", ".", "c", "o", "/", "a", "g", "e", "n", "t">>,
      gaeModule |-> <<"g", ".", "c", "o", "/", "g", "a", "e", "/", "a", "p", "p", "/", "m", "o", "d", "u", "l", "e">>,
      gaeVersion |-> <<"g", ".", "c", "o", "/", "g", "a", "e", "/", "a", "p", "p", "/", "v", "e", "r", "s", "i", "o", "n">>,
      gceInstance |-> <<"g", ".", "c", "o", "/", "g", "c", "e", "/", "i", "n", "s", "t", "a", "n", "c", "e", "_", "i", "d">>,
      spanKindSlash |-> <<"/", "s", "p", "a", "n", "/", "k", "i", "n", "d">>,
      spanKindDot |-> <<"s", "p", "a", "n", ".", "k", "i", "n", "d">>,
      errorMessage |-> <<"/", "e", "r", "r", "o", "r", "/", "m", "e", "s", "s", "a", "g", "e">>,
      error |-> <<"e", "r", "r", "o", "r">>,
      errorDotMessage |-> <<"e", "r", "r", "o", "r", ".", "m", "e", "s", "s", "a", "g", "e">> ]

Text ==
    [ unknownSpan |-> <<"U", "n", "k", "n", "o", "w", "n", " ", "S", "p", "a", "n">>,
      http |-> <<"H", "T", "T", "P", " ">>,
      space |-> <<" ">>,
      httpStatus |-> <<"H", "T", "T", "P", " ", "S", "t", "a", "t", "u", "s", ":", " ">>,
      component |-> <<"C", "o", "m", "p", "o", "n", "e", "n", "t", ":", " ">>,
      db |-> <<"D", "B">>,
      colon |-> <<":", " ">>,
      ellipsis |-> <<".", ".", ".">>,
      agent |-> <<"A", "g", "e", "n", "t", ":", " ">>,
      gaeModule |-> <<"G", "A", "E", " ", "M", "o", "d", "u", "l", "e", ":", " ">>,
      gaeVersion |-> <<"G", "A", "E", " ", "V", "e", "r", "s", "i", "o", "n", ":", " ">>,
      gceInstance |-> <<"G", "C", "E", " ", "I", "n", "s", "t", "a", "n", "c", "e", ":", " ">>,
      operation |-> <<"O", "p", "e", "r", "a", "t", "i", "o", "n", ":", " ">>,
      unknownSpanId |-> <<"U", "n", "k", "n", "o", "w", "n", " ", "S", "p", "a", "n", " ", "(", "I", "D", ":", " ">>,
      close |-> <<")">>,
      slash |-> <<"/">>,
      gco |-> <<"g", ".", "c", "o", "/">>,
      raw |-> <<"r", "a", "w", ".">>,
      unspecified |-> <<"U", "N", "S", "P", "E", "C", "I", "F", "I", "E", "D">>,
      complex |-> <<"[", "C", "o", "m", "p", "l", "e", "x", " ", "O", "b", "j", "e", "c", "t", "]">> ]


-----------------------------------------------------------------------------
(* Conversion of one raw span (the callback of spans.map).  An operator    *)
(* that can raise returns [threw, v].                                      *)

Ok(v) == [threw |-> FALSE, v |-> v]
Threw == [threw |-> TRUE, v |-> Undef]

(* span.spanId || '' *)
SpanIdOf(span) == Or(Get(span, Field.spanId), Str(<<>>))

(* name, displayName.value, displayName string, else 'Unknown Span' *)
NameFromFields(span) ==
    LET name == Get(span, Field.name)
        dn == Get(span, Field.displayName)
    IN  IF Truthy(name) THEN name
        ELSE IF Truthy(Get(dn, Field.value)) THEN Get(dn, Field.value)
        ELSE IF dn.t = "string" THEN dn
        ELSE Str(Text.unknownSpan)

(* if (displayName.startsWith('/')) displayName = `HTTP ${displayName}` *)
(* a value that is not a string has no startsWith method: TypeError     *)
HttpPrefix(d) ==
    IF d.t # "string" THEN Threw
    ELSE IF StartsWith(d.s, Text.slash) THEN Ok(Str(Text.http \o d.s))
    ELSE Ok(d)

(* the chain with '/http/url' consulted before '/http/path' *)
NameFromLabelsUrlFirst(labels) ==
    LET L(k) == Get(labels, k)
    IN  IF Truthy(L(Label.httpUrl))
        THEN Ok(Str(Text.http \o JsString(L(Label.httpUrl))))
        ELSE IF Truthy(L(Label.httpPath))
        THEN Ok(Str(JsString(Or(L(Label.httpMethod), Str(<<>>))) \o Text.space
                    \o JsString(L(Label.httpPath))))
        ELSE Ok(Str(Text.unknownSpan))

(* the chain of common label patterns *)
NameFromLabels(labels) ==
    LET L(k) == Get(labels, k)
    IN  IF Truthy(L(Label.httpPath))
        THEN Ok(Str(JsString(Or(L(Label.httpMethod), Str(<<>>))) \o Text.space
                    \o JsString(L(Label.httpPath))))
        ELSE IF Truthy(L(Label.httpUrl))
        THEN Ok(Str(Text.http \o JsString(L(Label.httpUrl))))
        ELSE IF Truthy(L(Label.httpStatusCode))
        THEN Ok(Str(Text.httpStatus \o JsString(L(Label.httpStatusCode))))
        ELSE IF Truthy(L(Label.component))
        THEN Ok(Str(Text.component \o JsString(L(Label.component))))
        ELSE IF Truthy(L(Label.dbStatement))
        THEN IF L(Label.dbStatement).t # "string" THEN Threw
             ELSE Ok(Str(JsString(Or(L(Label.dbSystem), Str(Text.db))) \o Text.colon
                         \o Substring0(L(Label.dbStatement).s, 30) \o Text.ellipsis))
        ELSE IF Truthy(L(Label.agent))
        THEN Ok(Str(Text.agent \o JsString(L(Label.agent))))
        ELSE IF Truthy(L(Label.gaeModule))
        THEN Ok(Str(Text.gaeModule \o JsString(L(Label.gaeModule))))
        ELSE IF Truthy(L(Label.gaeVersion))
        THEN Ok(Str(Text.gaeVersion \o JsString(L(Label.gaeVersion))))
        ELSE IF Truthy(L(Label.gceInstance))
        THEN Ok(Str(Text.gceInstance \o JsString(L(Label.gceInstance))))
        ELSE Ok(Str(Text.unknownSpan))

(* the first label with a short string value and an unreserved key *)
RECURSIVE FirstDescriptive(_, _)
FirstDescriptive(entries, i) ==
    IF i > Len(entries) THEN Str(Text.unknownSpan)
    ELSE LET key == entries[i][1]
             value == entries[i][2]
         IN  IF /\ value.t = "string"
                /\ ~StartsWith(key, Text.slash)
                /\ ~StartsWith(key, Text.gco)
                /\ Len(value.s) < 50
             THEN Str(key \o Text.colon \o value.s)
             ELSE FirstDescriptive(entries, i + 1)

possibleNameFields ==
    << Field.operationName, Field.description, Field.type, Field.method,
       Field.rpcName, Field.kind >>

RECURSIVE FirstNameField(_, _, _)
FirstNameField(span, d, i) ==
    IF i > Len(possibleNameFields) THEN d
    ELSE LET v == Get(span, possibleNameFields[i])
         IN  IF Truthy(v) /\ v.t = "string"
             THEN Str(possibleNameFields[i] \o Text.colon \o v.s)
             ELSE FirstNameField(span, d, i + 1)

(* operation.name, then the loop over possibleNameFields *)
NameFromAlternatives(span) ==
    LET op == Get(span, Field.operation)
        d == IF Truthy(op) /\ Truthy(Get(op, Field.name))
             THEN Str(Text.operation \o JsString(Get(op, Field.name)))
             ELSE Str(Text.unknownSpan)
    IN  FirstNameField(span, d, 1)

(* the block entered when displayName === 'Unknown Span' *)
NameFallbacks(span) ==
    LET labels == Get(span, Field.labels)
        fromLabels == IF Truthy(labels) THEN NameFromLabels(labels)
                      ELSE Ok(Str(Text.unknownSpan))
        descriptive == IF Truthy(labels) /\ fromLabels.v = Str(Text.unknownSpan)
                       THEN FirstDescriptive(labels.e, 1)
                       ELSE fromLabels.v
    IN  IF fromLabels.threw THEN Threw
        ELSE IF descriptive = Str(Text.unknownSpan)
        THEN Ok(NameFromAlternatives(span))
        ELSE Ok(descriptive)

(* the placeholder with the id in it whatever the id is *)
WithSpanIdAlways(d, spanId) ==
    IF d = Str(Text.unknownSpan)
    THEN Str(Text.unknownSpanId \o JsString(spanId) \o Text.close)
    ELSE d

(* if (displayName === 'Unknown Span' && spanId) *)
WithSpanId(d, spanId) ==
    IF d = Str(Text.unknownSpan) /\ Truthy(spanId)
    THEN Str(Text.unknownSpanId \o JsString(spanId) \o Text.close)
    ELSE d

DisplayNameOf(span) ==
    LET prefixed == HttpPrefix(NameFromFields(span))
        resolved == IF prefixed.threw THEN Threw
                    ELSE IF prefixed.v = Str(Text.unknownSpan)
                    THEN NameFallbacks(span)
                    ELSE prefixed
    IN  IF resolved.threw THEN Threw
        ELSE Ok(WithSpanId(resolved.v, SpanIdOf(span)))

-----------------------------------------------------------------------------
(* Kind, status and attributes of one raw span.                            *)

(* span.spanKind consulted before span.kind *)
KindOfSpanKindFirst(span) ==
    LET labels == Get(span, Field.labels)
        k0 == IF Truthy(Get(span, Field.spanKind)) THEN Get(span, Field.spanKind)
              ELSE IF Truthy(Get(span, Field.kind)) THEN Get(span, Field.kind)
              ELSE Str(Text.unspecified)
    IN  IF k0 = Str(Text.unspecified) /\ Truthy(labels)
        THEN Or(Or(Get(labels, Label.spanKindSlash), Get(labels, Label.spanKindDot)),
                k0)
        ELSE k0

(* span.kind, else span.spanKind, else the label-encoded kind *)
KindOf(span) ==
    LET labels == Get(span, Field.labels)
        k0 == IF Truthy(Get(span, Field.kind)) THEN Get(span, Field.kind)
              ELSE IF Truthy(Get(span, Field.spanKind)) THEN Get(span, Field.spanKind)
              ELSE Str(Text.unspecified)
    IN  IF k0 = Str(Text.unspecified) /\ Truthy(labels)
        THEN IF Truthy(Get(labels, Label.spanKindSlash))
             THEN Get(labels, Label.spanKindSlash)
             ELSE IF Truthy(Get(labels, Label.spanKindDot))
             THEN Get(labels, Label.spanKindDot)
             ELSE k0
        ELSE k0

RECURSIVE DigitsValue(_, _, _)
DigitsValue(str, i, acc) ==
    IF i > Len(str) \/ ~IsDigit(str[i]) THEN acc
    ELSE DigitsValue(str, i + 1, 10 * acc + DigitValue(str[i]))

NotANumber == [nan |-> TRUE, n |-> 0]

(* parseInt(v, 10) *)
ParseInt(v) ==
    LET str == JsString(v)
        signed == str # <<>> /\ str[1] \in {"-", "+"}
        body == IF signed THEN Tail(str) ELSE str
    IN  IF body = <<>> \/ ~IsDigit(body[1]) THEN NotANumber
        ELSE [nan |-> FALSE,
              n |-> IF signed /\ str[1] = "-" THEN -DigitsValue(body, 1, 0)
                    ELSE DigitsValue(body, 1, 0)]

(* ToNumber(v), as the comparison `code > 0` applies it *)
ToNumber(v) ==
    CASE v.t = "number" -> [nan |-> FALSE, n |-> v.n]
      [] v.t = "boolean" -> [nan |-> FALSE, n |-> v.n]
      [] v.t = "null" -> [nan |-> FALSE, n |-> 0]
      [] v.t = "string" ->
            IF \A i \in 1..Len(v.s) : IsDigit(v.s[i])
            THEN [nan |-> FALSE, n |-> DigitsValue(v.s, 1, 0)]
            ELSE NotANumber
      [] OTHER -> NotANumber

(* the explicit status field *)
StatusFromField(span) ==
    LET status == Get(span, Field.status)
        code == Get(status, Field.code)
    IN  IF ~Truthy(status) THEN "UNSPECIFIED"
        ELSE IF code.t = "number" /\ code.n = 0 THEN "OK"
        ELSE IF ~ToNumber(code).nan /\ ToNumber(code).n > 0 THEN "ERROR"
        ELSE "UNSPECIFIED"

(* the HTTP status code label consulted before the error labels *)
StatusFromLabelsHttpFirst(labels) ==
    LET statusCode == ParseInt(Get(labels, Label.httpStatusCode))
    IN  IF Truthy(Get(labels, Label.httpStatusCode)) /\ ~statusCode.nan
           /\ statusCode.n >= 200
        THEN (IF statusCode.n >= 400 THEN "ERROR" ELSE "OK")
        ELSE IF Truthy(Get(labels, Label.errorMessage))
                \/ Truthy(Get(labels, Label.error))
        THEN "ERROR"
        ELSE "UNSPECIFIED"

(* error labels, then the HTTP status code label *)
StatusFromLabels(labels) ==
    IF Truthy(Get(labels, Label.errorMessage)) \/ Truthy(Get(labels, Label.error))
    THEN "ERROR"
    ELSE IF Truthy(Get(labels, Label.httpStatusCode))
    THEN LET statusCode == ParseInt(Get(labels, Label.httpStatusCode))
         IN  IF ~statusCode.nan /\ statusCode.n >= 400 THEN "ERROR"
             ELSE IF ~statusCode.nan /\ statusCode.n >= 200 /\ statusCode.n < 400
             THEN "OK"
             ELSE "UNSPECIFIED"
    ELSE "UNSPECIFIED"

(* the labels consulted before the explicit status field *)
StatusOfLabelsFirst(span) ==
    LET labels == Get(span, Field.labels)
    IN  IF Truthy(labels) /\ StatusFromLabels(labels) # "UNSPECIFIED"
        THEN StatusFromLabels(labels)
        ELSE StatusFromField(span)

(* status: the explicit field, and the labels where it gave none *)
StatusOf(span) ==
    LET labels == Get(span, Field.labels)
    IN  IF StatusFromField(span) = "UNSPECIFIED" /\ Truthy(labels)
        THEN StatusFromLabels(labels)
        ELSE StatusFromField(span)

IsNullish(v) == v.t \in {"undefined", "null"}

(* for (const [key, value] of Object.entries(span.labels)) *)
RECURSIVE FlattenLabels(_, _, _)
FlattenLabels(attrs, entries, i) ==
    IF i > Len(entries) THEN attrs
    ELSE LET key == entries[i][1]
             value == entries[i][2]
         IN  FlattenLabels(IF IsNullish(value) THEN attrs
                           ELSE Put(attrs, key, Str(JsString(value))),
                           entries, i + 1)

(* value?.stringValue || String(value?.intValue || value?.boolValue || '') *)
TypedValue(value) ==
    Or(Get(value, Field.stringValue),
       Str(JsString(Or(Or(Get(value, Field.intValue), Get(value, Field.boolValue)),
                       Str(<<>>)))))

(* for (const [key, value] of Object.entries(span.attributes.attributeMap)) *)
RECURSIVE FlattenAttributeMap(_, _, _)
FlattenAttributeMap(attrs, entries, i) ==
    IF i > Len(entries) THEN attrs
    ELSE LET key == entries[i][1]
             value == entries[i][2]
         IN  FlattenAttributeMap(IF IsNullish(value) THEN attrs
                                 ELSE Put(attrs, key, TypedValue(value)),
                                 entries, i + 1)

(* JSON.stringify of the values of the model (no character needs an escape) *)
RECURSIVE JsonStringify(_)
RECURSIVE JsonMembers(_, _, _)
JsonStringify(v) ==
    CASE v.t = "string" -> <<"\"">> \o v.s \o <<"\"">>
      [] v.t = "object" -> <<"{">> \o JsonMembers(v.e, 1, TRUE) \o <<"}">>
      [] OTHER -> JsString(v)

JsonMembers(entries, i, first) ==
    IF i > Len(entries) THEN <<>>
    ELSE IF entries[i][2].t = "undefined" THEN JsonMembers(entries, i + 1, first)
    ELSE (IF first THEN <<>> ELSE <<",">>)
         \o <<"\"">> \o entries[i][1] \o <<"\"", ":">>
         \o JsonStringify(entries[i][2])
         \o JsonMembers(entries, i + 1, FALSE)

processedKeys ==
    { Field.spanId, Field.name, Field.displayName, Field.startTime, Field.endTime,
      Field.parentSpanId, Field.kind, Field.status, Field.labels, Field.attributes,
      Field.childSpans }

(* the value stored under `raw.${key}` *)
RawValue(value) ==
    IF value.t # "object" THEN Str(JsString(value))
    ELSE LET json == JsonStringify(value)
         IN  Str(Substring0(json, 100)
                 \o (IF Len(json) > 100 THEN Text.ellipsis ELSE <<>>))

(* for (const [key, value] of Object.entries(span)) *)
RECURSIVE FlattenOther(_, _, _)
FlattenOther(attrs, entries, i) ==
    IF i > Len(entries) THEN attrs
    ELSE LET key == entries[i][1]
             value == entries[i][2]
         IN  FlattenOther(IF key \in processedKeys \/ IsNullish(value) THEN attrs
                          ELSE Put(attrs, Text.raw \o key, RawValue(value)),
                          entries, i + 1)

AttributesOf(span) ==
    LET labels == Get(span, Field.labels)
        attributeMap == Get(Get(span, Field.attributes), Field.attributeMap)
        a1 == IF Truthy(labels) THEN FlattenLabels(<<>>, labels.e, 1) ELSE <<>>
        a2 == IF Truthy(Get(span, Field.attributes)) /\ Truthy(attributeMap)
              THEN FlattenAttributeMap(a1, attributeMap.e, 1)
              ELSE a1
    IN  FlattenOther(a2, span.e, 1)

(* the callback of spans.map: the TraceSpan built from one raw span *)
NormalizeSpan(span) ==
    LET displayName == DisplayNameOf(span)
        parentSpanId == Or(Get(span, Field.parentSpanId), Str(<<>>))
    IN  IF displayName.threw THEN Threw
        ELSE Ok([ spanId |-> SpanIdOf(span),
                  displayName |-> displayName.v,
                  startTime |-> Or(Get(span, Field.startTime), Str(<<>>)),
                  endTime |-> Or(Get(span, Field.endTime), Str(<<>>)),
                  kind |-> KindOf(span),
                  status |-> StatusOf(span),
                  attributes |-> AttributesOf(span),
                  parentSpanId |-> IF Truthy(parentSpanId) THEN parentSpanId
                                   ELSE Undef ])

-----------------------------------------------------------------------------
(* Array.prototype.sort with the comparator of the sort pass, as the       *)
(* runtime executes it for arrays shorter than one minimum run: the        *)
(* leading run is counted (and reversed when strictly descending), the     *)
(* rest is placed by binary insertion.  A comparator result of NaN is      *)
(* taken as 0.                                                             *)

(* the difference of two time values as the sort takes it *)
TimeDifference(x, y) == IF x.nan \/ y.nan THEN 0 ELSE x.ms - y.ms

(* new Date(a.startTime).getTime() - new Date(b.startTime).getTime() *)
CompareStartTime(a, b) == TimeDifference(GetTime(a.startTime), GetTime(b.startTime))

Reverse(w) == [i \in 1..Len(w) |-> w[Len(w) + 1 - i]]

(* the run ends at an element that is in the other order to the one before it *)
RunEnds(descending, order) ==
    (descending /\ order >= 0) \/ (~descending /\ order < 0)

RECURSIVE RunLength(_, _, _, _, _)
RunLength(w, ts, descending, i, run) ==
    IF i > Len(w) THEN run
    ELSE IF RunEnds(descending, CompareStartTime(ts[w[i]], ts[w[i - 1]])) THEN run
    ELSE RunLength(w, ts, descending, i + 1, run + 1)

(* the array with its first run made ascending, and the length of that run *)
MakeRun(w, descending, run) ==
    [ run |-> run,
      w |-> IF descending
            THEN Reverse(SubSeq(w, 1, run)) \o SubSeq(w, run + 1, Len(w))
            ELSE w ]

CountRun(w, ts, descending) == MakeRun(w, descending, RunLength(w, ts, descending, 3, 2))

CountAndMakeRun(w, ts) == CountRun(w, ts, CompareStartTime(ts[w[2]], ts[w[1]]) < 0)

RECURSIVE BinarySearch(_, _, _, _, _)
BinarySearch(w, ts, pivot, left, right) ==
    IF left < right
    THEN LET mid == left + ((right - left) \div 2)
         IN  IF CompareStartTime(ts[pivot], ts[w[mid + 1]]) < 0
             THEN BinarySearch(w, ts, pivot, left, mid)
             ELSE BinarySearch(w, ts, pivot, mid + 1, right)
    ELSE left

(* the array with the element after the sorted part w[1..start] moved to   *)
(* the place left + 1                                                      *)
InsertAt(w, left, start) ==
    SubSeq(w, 1, left) \o <<w[start + 1]>> \o SubSeq(w, left + 1, start)
        \o SubSeq(w, start + 2, Len(w))

RECURSIVE BinaryInsertionSort(_, _, _)
BinaryInsertionSort(w, ts, start) ==
    IF start >= Len(w) THEN w
    ELSE BinaryInsertionSort(InsertAt(w, BinarySearch(w, ts, w[start + 1], 0, start),
                                      start),
                             ts, start + 1)

(* the binary insertion of what follows the first run r *)
SortRun(r, ts) ==
    IF r.run < Len(r.w) THEN BinaryInsertionSort(r.w, ts, r.run) ELSE r.w

(* Array.prototype.sort of an array too short to be merged *)
ShortArraySort(w, ts) ==
    IF Len(w) < 2 THEN w ELSE SortRun(CountAndMakeRun(w, ts), ts)

(* a sort that leaves out the children whose start time does not parse *)
SortChildSpansParsableOnly(w, ts) ==
    ShortArraySort(SelectSeq(w, LAMBDA c : ~GetTime(ts[c].startTime).nan), ts)

(* span.childSpans.sort((a, b) => ...) on the references w *)
SortChildSpans(w, ts) == ShortArraySort(w, ts)

-----------------------------------------------------------------------------
(* The passes of buildTraceHierarchy.                                      *)

(* spanMap.set(spanId, traceSpan) *)
(* `${x}` of a number that may be NaN *)
NumberString(x) == IF x.nan THEN <<"N", "a", "N">> ELSE JsString(Num(x.ms))

(* (x / 1000).toFixed(2) for x >= 0: the hundredths nearest to x / 1000.   *)
(* Where x ends in 5 the two nearest are equally far in decimal and the    *)
(* binary value of x / 1000 decides; the checked inputs have no such x.    *)
SecondsToFixed2(x) ==
    IF x.nan THEN <<"N", "a", "N">>
    ELSE LET hundredths == (x.ms + 5) \div 10
         IN  NatToString(hundredths \div 100) \o <<".">>
                 \o <<DigitChar((hundredths \div 10) % 10), DigitChar(hundredths % 10)>>

(* end - start of two time values *)
Minus(end, start) ==
    IF start.nan \/ end.nan THEN NaN ELSE [nan |-> FALSE, ms |-> end.ms - start.ms]

(* Math.floor(x / 60000) and x % 60000 *)
Minutes(x) == IF x.nan THEN NaN ELSE [nan |-> FALSE, ms |-> x.ms \div 60000]
RemainingMs(x) == IF x.nan THEN NaN ELSE [nan |-> FALSE, ms |-> x.ms % 60000]

(* the three branches on durationMs; a comparison with NaN is false *)
DurationString(durationMs) ==
    IF ~durationMs.nan /\ durationMs.ms < 1000
    THEN NumberString(durationMs) \o <<"m", "s">>
    ELSE IF ~durationMs.nan /\ durationMs.ms < 60000
    THEN SecondsToFixed2(durationMs) \o <<"s">>
    ELSE NumberString(Minutes(durationMs)) \o <<"m", " ">>
             \o SecondsToFixed2(RemainingMs(durationMs)) \o <<"s">>

calculateDuration(startTime, endTime) ==
    DurationString(Minus(GetTime(endTime), GetTime(startTime)))

(* a map in which the first object stored under a key stays *)
MapSetKeepFirst(map, key, ref) ==
    [k \in (DOMAIN map) \cup {key} |-> IF k \in DOMAIN map THEN map[k] ELSE ref]

MapSet(map, key, ref) ==
    [k \in (DOMAIN map) \cup {key} |-> IF k = key THEN ref ELSE map[k]]

(* spanMap.get(span.parentSpanId): the reference found, 0 for undefined *)
MapGet(map, key) == IF key \in DOMAIN map THEN map[key] ELSE 0

(* LinkSpan with a dangling parent reference dropped instead of made a root *)
LinkSpanDropDangling(children, roots, map, ts, i) ==
    LET parentSpan == MapGet(map, ts[i].parentSpanId)
    IN  IF Truthy(ts[i].parentSpanId)
        THEN [ childSpans |-> IF parentSpan # 0
                              THEN [children EXCEPT ![parentSpan] = Append(@, i)]
                              ELSE children,
               rootSpans |-> roots ]
        ELSE [ childSpans |-> children, rootSpans |-> Append(roots, i) ]

(* LinkSpan with a span that is its own parent made a root *)
LinkSpanSelfIsRoot(children, roots, map, ts, i) ==
    LET parentSpan == MapGet(map, ts[i].parentSpanId)
    IN  IF Truthy(ts[i].parentSpanId) /\ parentSpan # 0 /\ parentSpan # i
        THEN [ childSpans |-> [children EXCEPT ![parentSpan] = Append(@, i)],
               rootSpans |-> roots ]
        ELSE [ childSpans |-> children, rootSpans |-> Append(roots, i) ]

(* LinkSpan with an attached child also kept as a root *)
LinkSpanChildAlsoRoot(children, roots, map, ts, i) ==
    LET parentSpan == MapGet(map, ts[i].parentSpanId)
    IN  IF Truthy(ts[i].parentSpanId) /\ parentSpan # 0
        THEN [ childSpans |-> [children EXCEPT ![parentSpan] = Append(@, i)],
               rootSpans |-> Append(roots, i) ]
        ELSE [ childSpans |-> children, rootSpans |-> Append(roots, i) ]

(* the objects below the set S in the child arrays children *)
RECURSIVE BelowIn(_, _)
BelowIn(children, S) ==
    LET T == S \cup UNION { { children[p][k] : k \in 1..Len(children[p]) } : p \in S }
    IN  IF T = S THEN S ELSE BelowIn(children, T)

(* a link loop that breaks cycles: a span whose parent is the span itself  *)
(* or already below it becomes a root                                      *)
LinkSpanBreakCycle(children, roots, map, ts, i) ==
    LET parentSpan == MapGet(map, ts[i].parentSpanId)
    IN  IF Truthy(ts[i].parentSpanId) /\ parentSpan # 0
           /\ parentSpan \notin BelowIn(children, {i})
        THEN [ childSpans |-> [children EXCEPT ![parentSpan] = Append(@, i)],
               rootSpans |-> roots ]
        ELSE [ childSpans |-> children, rootSpans |-> Append(roots, i) ]

(* a link loop that keeps a span closing a cycle as a child and makes it a *)
(* root as well                                                            *)
LinkSpanCycleAlsoRoot(children, roots, map, ts, i) ==
    LET parentSpan == MapGet(map, ts[i].parentSpanId)
    IN  IF Truthy(ts[i].parentSpanId) /\ parentSpan # 0
        THEN [ childSpans |-> [children EXCEPT ![parentSpan] = Append(@, i)],
               rootSpans |-> IF parentSpan \in BelowIn(children, {i})
                             THEN Append(roots, i) ELSE roots ]
        ELSE [ childSpans |-> children, rootSpans |-> Append(roots, i) ]

(* one turn of the link loop, for the span object i *)
LinkSpan(children, roots, map, ts, i) ==
    LET parentSpan == MapGet(map, ts[i].parentSpanId)
    IN  IF Truthy(ts[i].parentSpanId) /\ parentSpan # 0
        THEN [ childSpans |-> [children EXCEPT ![parentSpan] = Append(@, i)],
               rootSpans |-> roots ]
        ELSE [ childSpans |-> children, rootSpans |-> Append(roots, i) ]

(* TraceData with allSpans sorted by start time, as the child lists are *)
TraceDataSorted(project, trace, roots, ts) ==
    [ traceId |-> trace, projectId |-> project, rootSpans |-> roots,
      allSpans |-> LET order == SortChildSpans([i \in 1..Len(ts) |-> i], ts)
                   IN  [i \in 1..Len(ts) |-> ts[order[i]]] ]

(* TraceData with rootSpans sorted by start time, as the child lists are *)
TraceDataSortedRoots(project, trace, roots, ts) ==
    [ traceId |-> trace, projectId |-> project,
      rootSpans |-> SortChildSpans(roots, ts), allSpans |-> ts ]

(* TraceData with the two identifiers exchanged *)
TraceDataSwapped(project, trace, roots, ts) ==
    [ traceId |-> project, projectId |-> trace, rootSpans |-> roots, allSpans |-> ts ]

(* the returned object *)
TraceData(project, trace, roots, ts) ==
    [ traceId |-> trace, projectId |-> project, rootSpans |-> roots, allSpans |-> ts ]

NoResult == [ traceId |-> "", projectId |-> "", rootSpans |-> <<>>, allSpans |-> <<>> ]

(* no earlier call: the value of previous until a call is repeated *)
NoPrevious == [ called |-> FALSE, result |-> NoResult, childSpans |-> <<>> ]

(* the raw span after a callback that writes the defaulted id back to it:   *)
(* span.spanId = span.spanId || ''                                         *)
RawSpanWithDefaults(span) == Obj(Put(span.e, Field.spanId, SpanIdOf(span)))

(* the raw span after the callback ran on it: the callback reads span and  *)
(* assigns to no property of it                                            *)
RawSpanAfter(span) == span

(* a callback that names a span without id by its index in the list *)
CallbackIndexedId(list, index) ==
    NormalizeSpan(IF Truthy(Get(list[index], Field.spanId)) THEN list[index]
                  ELSE Obj(Put(list[index].e, Field.spanId,
                               Str(NatToString(index)))))

(* (span, index) => { ... return traceSpan }: index and the list are used  *)
(* in log messages only                                                    *)
Callback(list, index) == NormalizeSpan(list[index])

(* spans.map((span, index) => ...): one call of the callback, then the loop exit *)
MapStep ==
    /\ pc = "map"
    /\ IF idx <= Len(spans)
       THEN LET r == Callback(spans, idx)
            IN  IF r.threw
                THEN /\ pc' = "threw"
                     /\ UNCHANGED <<spans, idx, traceSpans, spanMap, childSpans>>
                ELSE /\ traceSpans' = Append(traceSpans, r.v)
                     /\ childSpans' = Append(childSpans, <<>>)
                     /\ spanMap' = MapSet(spanMap, r.v.spanId, idx)
                     /\ spans' = [spans EXCEPT ![idx] = RawSpanAfter(@)]
                     /\ idx' = idx + 1
                     /\ pc' = pc
       ELSE /\ pc' = "link"
            /\ idx' = 1
            /\ UNCHANGED <<spans, traceSpans, spanMap, childSpans>>
    /\ UNCHANGED <<projectId, traceId, previous, duration, markdown, rootSpans, stack,
                   totalDescendants, result>>

(* for (const span of traceSpans): attach to the parent or push as root *)
LinkStep ==
    /\ pc = "link"
    /\ IF idx <= Len(traceSpans)
       THEN LET r == LinkSpan(childSpans, rootSpans, spanMap, traceSpans, idx)
            IN  /\ childSpans' = r.childSpans
                /\ rootSpans' = r.rootSpans
                /\ idx' = idx + 1
                /\ pc' = pc
       ELSE /\ pc' = "sort"
            /\ idx' = 1
            /\ UNCHANGED <<childSpans, rootSpans>>
    /\ UNCHANGED <<spans, projectId, traceId, previous, duration, markdown,
                   traceSpans, spanMap, stack, totalDescendants, result>>

(* for (const span of traceSpans): sort the children of a span that has some *)
SortStep ==
    /\ pc = "sort"
    /\ IF idx <= Len(traceSpans)
       THEN /\ childSpans' = IF Len(childSpans[idx]) > 0
                             THEN [childSpans EXCEPT
                                      ![idx] = SortChildSpans(@, traceSpans)]
                             ELSE childSpans
            /\ idx' = idx + 1
            /\ pc' = pc
       ELSE /\ pc' = "count"
            /\ idx' = 1
            /\ UNCHANGED childSpans
    /\ UNCHANGED <<spans, projectId, traceId, previous, duration, markdown,
                   traceSpans, spanMap, rootSpans, stack, totalDescendants,
                   result>>

(* for (const rootSpan of rootSpans): the call countDescendants(rootSpan) *)
CountRoot ==
    /\ pc = "count"
    /\ stack = <<>>
    /\ idx <= Len(rootSpans)
    /\ Len(stack) < MaxDepth
    /\ stack' = <<[s |-> rootSpans[idx], c |-> 1]>>
    /\ totalDescendants' = Len(childSpans[rootSpans[idx]])
    /\ UNCHANGED <<spans, projectId, traceId, previous, duration, markdown, pc, idx,
                   traceSpans, spanMap, childSpans, rootSpans, result>>

(* one turn of the loop of the running countDescendants call: the recursive *)
(* call for the next child, or the return to the caller                     *)
CountDescend ==
    /\ pc = "count"
    /\ stack # <<>>
    /\ LET top == stack[Len(stack)]
       IN  IF top.c <= Len(childSpans[top.s])
           THEN LET child == childSpans[top.s][top.c]
                IN  /\ Len(stack) < MaxDepth
                    /\ stack' = Append([stack EXCEPT ![Len(stack)].c = top.c + 1],
                                       [s |-> child, c |-> 1])
                    /\ totalDescendants' = totalDescendants + Len(childSpans[child])
                    /\ idx' = idx
           ELSE /\ stack' = SubSeq(stack, 1, Len(stack) - 1)
                /\ idx' = IF Len(stack) = 1 THEN idx + 1 ELSE idx
                /\ UNCHANGED totalDescendants
    /\ UNCHANGED <<spans, projectId, traceId, previous, duration, markdown, pc,
                   traceSpans, spanMap, childSpans, rootSpans, result>>

(* return { traceId, projectId, rootSpans, allSpans: traceSpans } *)
Return ==
    /\ pc = "count"
    /\ stack = <<>>
    /\ idx > Len(rootSpans)
    /\ pc' = "done"
    /\ result' = TraceData(projectId, traceId, rootSpans, traceSpans)
    /\ UNCHANGED <<spans, projectId, traceId, previous, duration, markdown, idx,
                   traceSpans, spanMap, childSpans, rootSpans, stack,
                   totalDescendants>>

Next == MapStep \/ LinkStep \/ SortStep \/ CountRoot \/ CountDescend \/ Return

(* rootSpans carried over from the previous call, as a module-level array is *)
KeptRootSpans == rootSpans

(* const rootSpans: TraceSpan[] = []: the array a call starts with *)
EntryRootSpans == <<>>

(* the caller keeps what the call returned and calls buildTraceHierarchy   *)
(* again with the same arguments: spanMap, traceSpans and rootSpans are    *)
(* locals of the call, the raw span list is the caller's and is passed on  *)
(* as the first call left it                                               *)
CallAgain ==
    /\ pc = "done"
    /\ ~previous.called
    /\ previous' = [ called |-> TRUE, result |-> result, childSpans |-> childSpans ]
    /\ pc' = "map"
    /\ idx' = 1
    /\ traceSpans' = <<>>
    /\ spanMap' = <<>>
    /\ childSpans' = <<>>
    /\ rootSpans' = EntryRootSpans
    /\ totalDescendants' = 0
    /\ UNCHANGED <<spans, projectId, traceId, duration, markdown, stack, result>>

TwiceNext == Next \/ CallAgain

(* formatSpanHierarchy on a span of the returned TraceData: the duration   *)
(* line, written if (span.startTime && span.endTime)                       *)
FormatDuration ==
    /\ pc = "done"
    /\ \E i \in 1..Len(result.allSpans) :
         /\ Truthy(result.allSpans[i].startTime)
         /\ Truthy(result.allSpans[i].endTime)
         /\ duration' = calculateDuration(result.allSpans[i].startTime,
                                          result.allSpans[i].endTime)
    /\ pc' = "formatted"
    /\ UNCHANGED <<spans, projectId, traceId, previous, idx, traceSpans,
                   spanMap, childSpans, rootSpans, stack, totalDescendants,
                   result, markdown>>

DurationNext == Next \/ FormatDuration

(* no report: the value of markdown until formatTraceData returns *)
NoMarkdown ==
    [ traceId |-> "", projectId |-> "", totalSpans |-> 0, hierarchy |-> <<>>,
      failedSpans |-> <<>> ]

TwoDigits(n) == <<DigitChar(n \div 10), DigitChar(n % 10)>>
ThreeDigits(n) == <<DigitChar(n \div 100)>> \o TwoDigits(n % 100)

(* the ISO text of a time value in January 1970, with the given separator  *)
(* between day and time and the given zone suffix                          *)
IsoString(ms, separator, zone) ==
    <<"1", "9", "7", "0", "-", "0", "1", "-">> \o TwoDigits(ms \div 86400000 + 1)
        \o separator \o TwoDigits((ms \div 3600000) % 24)
        \o <<":">> \o TwoDigits((ms \div 60000) % 60)
        \o <<":">> \o TwoDigits((ms \div 1000) % 60)
        \o <<".">> \o ThreeDigits(ms % 1000) \o zone

(* date.toISOString(): a RangeError for an invalid date *)
toISOString(time) ==
    IF time.nan THEN Threw ELSE Ok(IsoString(time.ms, <<"T">>, <<"Z">>))

(* date.toISOString().replace('T', ' ').replace('Z', '') of a valid date *)
formatDate(time) == IsoString(time.ms, <<" ">>, <<>>)

(* the Start and End lines of formatSpanHierarchy, written for two valid   *)
(* dates only                                                              *)
StartEndLines(startDate, endDate) ==
    IF ~startDate.nan /\ ~endDate.nan
    THEN <<formatDate(startDate), formatDate(endDate)>>
    ELSE <<>>

(* the timing lines of formatSpanHierarchy: if (span.startTime && span.endTime) *)
TimingLines(span) ==
    IF Truthy(span.startTime) /\ Truthy(span.endTime)
    THEN [ duration |-> calculateDuration(span.startTime, span.endTime),
           dates |-> StartEndLines(GetTime(span.startTime), GetTime(span.endTime)) ]
    ELSE [ duration |-> <<>>, dates |-> <<>> ]

(* the lines formatSpanHierarchy writes for the span itself: name, id,     *)
(* timing, kind and status                                                 *)
SpanLines(span, depth) ==
    [ depth |-> depth, displayName |-> span.displayName, spanId |-> span.spanId,
      timing |-> TimingLines(span), kind |-> span.kind, status |-> span.status ]

(* the calls formatSpanHierarchy(w[k], depth) still to make, in order *)
Calls(w, depth) == [k \in 1..Len(w) |-> [s |-> w[k], depth |-> depth]]

(* the recursion of formatSpanHierarchy as the list of the calls still to  *)
(* make: the first call writes the lines of its span, then come the calls  *)
(* for a sorted copy of its childSpans one level deeper, then the other    *)
(* calls; displayText.includes is a TypeError when the displayName is no   *)
(* string                                                                  *)
RECURSIVE FormatCalls(_, _, _, _)
FormatCalls(calls, lines, ts, children) ==
    IF calls = <<>> THEN Ok(lines)
    ELSE IF ts[calls[1].s].displayName.t # "string" THEN Threw
    ELSE FormatCalls(Calls(SortChildSpans(children[calls[1].s], ts),
                           calls[1].depth + 1) \o Tail(calls),
                     Append(lines, SpanLines(ts[calls[1].s], calls[1].depth)),
                     ts, children)

(* formatSpanHierarchy(span, depth) after the lines written so far *)
formatSpanHierarchy(i, depth, lines, ts, children) ==
    FormatCalls(<<[s |-> i, depth |-> depth]>>, lines, ts, children)

(* for (const rootSpan of traceData.rootSpans), from the k-th root on *)
RECURSIVE FormatRoots(_, _, _, _, _)
FormatRoots(roots, k, sofar, ts, children) ==
    IF k > Len(roots) \/ sofar.threw THEN sofar
    ELSE FormatRoots(roots, k + 1,
                     formatSpanHierarchy(roots[k], 0, sofar.v, ts, children),
                     ts, children)

(* the entry of one failed span: name, id, start, end, duration and the    *)
(* error message if there is one                                           *)
FailedSpanLines(span, start, end) ==
    [ displayName |-> span.displayName, spanId |-> span.spanId,
      start |-> start, end |-> end,
      duration |-> calculateDuration(span.startTime, span.endTime),
      error |-> IF Truthy(Lookup(span.attributes, Label.errorDotMessage, 1))
                THEN Lookup(span.attributes, Label.errorDotMessage, 1)
                ELSE Undef ]

(* the failed-spans section: an entry for each span of allSpans with       *)
(* status ERROR, from the k-th on; toISOString ends the call for a span    *)
(* whose start or end is no valid date                                     *)
RECURSIVE FailedSpans(_, _, _)
FailedSpans(ts, k, lines) ==
    IF k > Len(ts) THEN Ok(lines)
    ELSE IF ts[k].status # "ERROR" THEN FailedSpans(ts, k + 1, lines)
    ELSE IF toISOString(GetTime(ts[k].startTime)).threw
            \/ toISOString(GetTime(ts[k].endTime)).threw
    THEN Threw
    ELSE FailedSpans(ts, k + 1,
                     Append(lines,
                            FailedSpanLines(ts[k],
                                            toISOString(GetTime(ts[k].startTime)).v,
                                            toISOString(GetTime(ts[k].endTime)).v)))

(* the report as its parts; the hierarchy is written before the failed     *)
(* spans, so an error in either ends the call                              *)
Report(traceData, hierarchy, failed) ==
    IF hierarchy.threw \/ failed.threw THEN Threw
    ELSE Ok([ traceId |-> traceData.traceId, projectId |-> traceData.projectId,
              totalSpans |-> Len(traceData.allSpans), hierarchy |-> hierarchy.v,
              failedSpans |-> failed.v ])

formatTraceData(traceData, children) ==
    Report(traceData,
           FormatRoots(traceData.rootSpans, 1, Ok(<<>>), traceData.allSpans, children),
           FailedSpans(traceData.allSpans, 1, <<>>))

(* the call formatTraceData(traceData) on the returned TraceData *)
FormatTraceData ==
    /\ pc = "done"
    /\ \E r \in { formatTraceData(result, childSpans) } :
         IF r.threw
         THEN /\ pc' = "raised"
              /\ UNCHANGED markdown
         ELSE /\ pc' = "rendered"
              /\ markdown' = r.v
    /\ UNCHANGED <<spans, projectId, traceId, previous, duration, idx, traceSpans,
                   spanMap, childSpans, rootSpans, stack, totalDescendants,
                   result>>

RenderNext == Next \/ FormatTraceData

-----------------------------------------------------------------------------
(* Inputs.                                                                 *)

chars ==
    [ a |-> <<"a">>, b |-> <<"b">>, x |-> <<"x">>,
      day1 |-> <<"1", "9", "7", "0", "-", "0", "1", "-", "0", "1">>,
      day2 |-> <<"1", "9", "7", "0", "-", "0", "1", "-", "0", "2">>,
      op |-> <<"o", "p">>, users |-> <<"/", "u", "s", "e", "r", "s">>,
      dn |-> <<"d", "n">>, v |-> <<"v">>, get |-> <<"G", "E", "T">>,
      select |-> <<"S", "E", "L", "E", "C", "T", " ", "1">>,
      custom |-> <<"c", "u", "s", "t", "o", "m">>, val |-> <<"v", "a", "l">>,
      notFound |-> <<"4", "0", "4">>, boom |-> <<"b", "o", "o", "m">>,
      continue |-> <<"1", "0", "0">>, ok |-> <<"2", "0", "0">>,
      lastOk |-> <<"3", "9", "9">>, badRequest |-> <<"4", "0", "0">>,
      abc |-> <<"a", "b", "c">>, notFoundText |-> <<"4", "0", "4", " ", "x">>,
      m |-> <<"m">>, t |-> <<"t">>, extra |-> <<"e", "x", "t", "r", "a">>,
      rawExtra |-> <<"r", "a", "w", ".", "e", "x", "t", "r", "a">>,
      url |-> <<"h", "t", "t", "p", ":", "/", "/", "h", "/">>, web |-> <<"w", "e", "b">>, pg |-> <<"p", "g">>,
      selectUsers |->
        <<"S", "E", "L", "E", "C", "T", " ", "i", "d", " ", "F", "R", "O", "M", " ", "u", "s", "e", "r">>
          \o <<"s", " ", "W", "H", "E", "R", "E", " ", "i", "d", " ", "=", " ", "1", "2", "3", "4", "5">>,
      server |-> <<"S", "E", "R", "V", "E", "R">>, client |-> <<"C", "L", "I", "E", "N", "T">>,
      producer |-> <<"P", "R", "O", "D", "U", "C", "E", "R">>,
      consumer |-> <<"C", "O", "N", "S", "U", "M", "E", "R">>,
      agent |-> <<"n", "o", "d", "e">>, default |-> <<"d", "e", "f", "a", "u", "l", "t">>, v1 |-> <<"v", "1">>, vm |-> <<"v", "m">> ]

(* an object literal: the properties whose value is given *)
Record(entries) == Obj(SelectSeq(entries, LAMBDA p : p[2] # Undef))

RawSpan(id, parent, start) ==
    Record(<< <<Field.spanId, id>>, <<Field.parentSpanId, parent>>,
              <<Field.startTime, start>> >>)

SpanLists(S, n) == UNION { [1..k -> S] : k \in 0..n }

(* spans of a trace with absent, shared, dangling, self and cyclic parents *)
HierSpans ==
    { RawSpan(id, parent, start) :
        id \in { Undef, Str(chars.a), Str(chars.b) },
        parent \in { Undef, Str(chars.a), Str(chars.b) },
        start \in { Str(chars.day1) } }

(* one parent span followed by its children, with absent, unparsable and *)
(* parsable start times                                                    *)
SortChildren ==
    { RawSpan(Str(chars.b), Str(chars.a), start) :
        start \in { Undef, Str(chars.x), Str(chars.day1), Str(chars.day2) } }

(* spans without parent or with a parent that names no span, with earlier *)
(* and later start times                                                  *)
RootOnlySpans ==
    { RawSpan(Str(chars.a), parent, start) :
        parent \in { Undef, Str(chars.x) },
        start \in { Str(chars.day1), Str(chars.day2) } }

SortLists ==
    { <<RawSpan(Str(chars.a), Undef, Str(chars.day1))>> \o c :
        c \in SpanLists(SortChildren, MaxSortSpans) }
    \cup SpanLists(RootOnlySpans, MaxSortSpans)

(* raw spans with absent, empty and wrongly typed name, label and status fields *)
NormSpans ==
    { Record(<< <<Field.spanId, id>>, <<Field.name, name>>,
                <<Field.displayName, dn>>, <<Field.labels, labels>>,
                <<Field.status, status>> >>) :
        id \in { Undef, Str(chars.a) },
        name \in { Undef, Str(<<>>), Str(chars.op), Str(chars.users), Num(123),
                   Str(Text.unknownSpan) },
        dn \in { Undef, Str(<<>>), Str(chars.dn), Obj(<<>>),
                 Obj(<< <<Field.value, Str(chars.v)>> >>),
                 Obj(<< <<Field.value, Num(7)>> >>) },
        labels \in { Undef, Obj(<<>>),
                     Obj(<< <<Label.httpMethod, Str(chars.get)>>,
                            <<Label.httpPath, Str(chars.users)>> >>),
                     Obj(<< <<Label.dbStatement, Num(5)>> >>),
                     Obj(<< <<Label.dbStatement, Str(chars.select)>> >>),
                     Obj(<< <<chars.custom, Str(chars.val)>> >>),
                     Obj(<< <<Label.httpStatusCode, Str(chars.notFound)>> >>) },
        status \in { Undef, Obj(<<>>), Obj(<< <<Field.code, Num(0)>> >>),
                     Obj(<< <<Field.code, Num(5)>> >>) } }

(* named raw spans with every combination of an explicit status and of     *)
(* absent, empty and non-empty error and HTTP status labels                *)
StatusSpans ==
    { Record(<< <<Field.spanId, Str(chars.a)>>, <<Field.name, Str(chars.op)>>,
                <<Field.labels, labels>>, <<Field.status, status>> >>) :
        labels \in
            { Undef } \cup
            { Record(<< <<Label.errorMessage, message>>, <<Label.error, error>>,
                        <<Label.httpStatusCode, code>> >>) :
                message \in { Undef, Str(<<>>), Str(chars.boom) },
                error \in { Undef, Str(<<>>), Str(chars.boom) },
                code \in { Undef, Str(<<>>), Str(chars.continue), Str(chars.ok),
                           Str(chars.lastOk), Str(chars.badRequest),
                           Str(chars.notFound), Str(chars.notFoundText),
                           Str(chars.abc), Num(500) } },
        status \in { Undef, Obj(<<>>), Obj(<< <<Field.code, Num(0)>> >>),
                     Obj(<< <<Field.code, Num(5)>> >>),
                     Obj(<< <<Field.code, Num(-1)>> >>) } }

(* named raw spans whose labels, attributes.attributeMap and other fields   *)
(* produce the same attribute key                                          *)
AttributeSpans ==
    { Record(<< <<Field.spanId, Str(chars.a)>>, <<Field.name, Str(chars.op)>>,
                <<Field.labels, labels>>, <<Field.attributes, attributes>>,
                <<chars.extra, extra>> >>) :
        labels \in
            { Undef } \cup
            { Record(<< <<chars.custom, custom>>, <<chars.rawExtra, raw>> >>) :
                custom \in { Undef, Null, Str(chars.val) },
                raw \in { Undef, Str(chars.val) } },
        attributes \in
            { Undef, Obj(<<>>) } \cup
            { Obj(<< <<Field.attributeMap,
                       Record(<< <<chars.custom, custom>>, <<chars.rawExtra, raw>> >>)>> >>) :
                custom \in { Undef, Null,
                             Obj(<< <<Field.stringValue, Str(chars.m)>> >>),
                             Obj(<< <<Field.intValue, Num(7)>> >>),
                             Obj(<< <<Field.intValue, Num(0)>> >>),
                             Obj(<< <<Field.boolValue, Bool(TRUE)>> >>),
                             Obj(<< <<Field.boolValue, Bool(FALSE)>> >>) },
                raw \in { Undef, Obj(<< <<Field.stringValue, Str(chars.m)>> >>) } },
        extra \in { Undef, Str(chars.t) } }

(* raw spans without name fields whose labels hold every combination of    *)
(* the labels a display name is derived from                               *)
LabelSpans ==
    { Record(<< <<Field.spanId, Str(chars.a)>>,
                <<Field.labels,
                  Record(<< <<Label.gceInstance, gce>>, <<Label.gaeVersion, version>>,
                            <<Label.gaeModule, module>>, <<Label.agent, agent>>,
                            <<Label.dbSystem, system>>,
                            <<Label.dbStatement, statement>>,
                            <<Label.component, component>>,
                            <<Label.httpStatusCode, code>>, <<Label.httpUrl, url>>,
                            <<Label.httpMethod, method>>,
                            <<Label.httpPath, path>> >>)>> >>) :
        gce \in { Undef, Str(chars.vm) },
        version \in { Undef, Str(chars.v1) },
        module \in { Undef, Str(chars.default) },
        agent \in { Undef, Str(chars.agent) },
        system \in { Undef, Str(chars.pg) },
        statement \in { Undef, Str(chars.select), Str(chars.selectUsers) },
        component \in { Undef, Str(chars.web) },
        code \in { Undef, Str(chars.ok) },
        url \in { Undef, Str(chars.url) },
        method \in { Undef, Str(chars.get) },
        path \in { Undef, Str(<<>>), Str(chars.users) } }

(* raw spans without name fields and labels, with every combination of    *)
(* the alternative fields a display name is derived from                  *)
AlternativeSpans ==
    { Record(<< <<Field.spanId, id>>, <<Field.kind, kind>>,
                <<Field.rpcName, rpcName>>, <<Field.method, method>>,
                <<Field.type, type>>, <<Field.description, description>>,
                <<Field.operationName, operationName>>,
                <<Field.operation, operation>> >>) :
        id \in { Undef, Str(<<>>), Str(chars.a) },
        kind \in { Undef, Str(chars.v) },
        rpcName \in { Undef, Str(chars.v) },
        method \in { Undef, Str(chars.get) },
        type \in { Undef, Str(chars.v) },
        description \in { Undef, Str(chars.dn) },
        operationName \in { Undef, Num(7), Str(chars.v) },
        operation \in { Undef, Obj(<<>>),
                        Obj(<< <<Field.name, Str(chars.op)>> >>) } }

(* named raw spans with absent, empty, unspecified and given kind,         *)
(* spanKind and kind labels                                                *)
KindSpans ==
    { Record(<< <<Field.spanId, Str(chars.a)>>, <<Field.name, Str(chars.op)>>,
                <<Field.kind, kind>>, <<Field.spanKind, spanKind>>,
                <<Field.labels, labels>> >>) :
        kind \in { Undef, Str(<<>>), Str(chars.server), Str(Text.unspecified),
                   Num(2) },
        spanKind \in { Undef, Str(chars.client), Str(Text.unspecified) },
        labels \in
            { Undef } \cup
            { Record(<< <<Label.spanKindSlash, slash>>, <<Label.spanKindDot, dot>> >>) :
                slash \in { Undef, Str(<<>>), Str(chars.producer) },
                dot \in { Undef, Str(chars.consumer) } } }

NormLists ==
    { <<span>> : span \in NormSpans \cup StatusSpans \cup AttributeSpans
                          \cup AlternativeSpans \cup KindSpans }

instants ==
    [ t0 |->
        <<"1", "9", "7", "0", "-", "0", "1", "-", "0", "1", "T", "0">>
          \o <<"0", ":", "0", "0", ":", "0", "0", ".", "0", "0", "0", "Z">>,
      t500 |->
        <<"1", "9", "7", "0", "-", "0", "1", "-", "0", "1", "T", "0">>
          \o <<"0", ":", "0", "0", ":", "0", "0", ".", "5", "0", "0", "Z">>,
      t999 |->
        <<"1", "9", "7", "0", "-", "0", "1", "-", "0", "1", "T", "0">>
          \o <<"0", ":", "0", "0", ":", "0", "0", ".", "9", "9", "9", "Z">>,
      t1000 |->
        <<"1", "9", "7", "0", "-", "0", "1", "-", "0", "1", "T", "0">>
          \o <<"0", ":", "0", "0", ":", "0", "1", ".", "0", "0", "0", "Z">>,
      t1500 |->
        <<"1", "9", "7", "0", "-", "0", "1", "-", "0", "1", "T", "0">>
          \o <<"0", ":", "0", "0", ":", "0", "1", ".", "5", "0", "0", "Z">>,
      t59999 |->
        <<"1", "9", "7", "0", "-", "0", "1", "-", "0", "1", "T", "0">>
          \o <<"0", ":", "0", "0", ":", "5", "9", ".", "9", "9", "9", "Z">>,
      t60000 |->
        <<"1", "9", "7", "0", "-", "0", "1", "-", "0", "1", "T", "0">>
          \o <<"0", ":", "0", "1", ":", "0", "0", ".", "0", "0", "0", "Z">>,
      t125500 |->
        <<"1", "9", "7", "0", "-", "0", "1", "-", "0", "1", "T", "0">>
          \o <<"0", ":", "0", "2", ":", "0", "5", ".", "5", "0", "0", "Z">> ]

(* one named span with absent, unparsable and parsable start and end times *)
TimedSpans ==
    { Record(<< <<Field.spanId, Str(chars.a)>>, <<Field.name, Str(chars.op)>>,
                <<Field.startTime, start>>, <<Field.endTime, end>> >>) :
        start \in { Undef, Str(chars.x), Str(instants.t0), Str(instants.t500),
                    Str(chars.day2) },
        end \in { Undef, Str(chars.x), Str(chars.day1) }
                 \cup { Str(instants[k]) : k \in DOMAIN instants } }

TimedLists == { <<span>> : span \in TimedSpans }

(* raw spans with and without id, labels and status, to stand next to one *)
(* another in a list                                                      *)
PairSpans ==
    { Record(<< <<Field.spanId, id>>, <<Field.labels, labels>>,
                <<Field.status, status>>, <<Field.startTime, Str(chars.day1)>> >>) :
        id \in { Undef, Str(chars.a) },
        labels \in { Undef,
                     Obj(<< <<Label.httpMethod, Str(chars.get)>>,
                            <<Label.httpPath, Str(chars.users)>>,
                            <<Label.httpStatusCode, Str(chars.notFound)>>,
                            <<chars.custom, Str(chars.val)>> >>) },
        status \in { Undef, Obj(<< <<Field.code, Num(0)>> >>) } }

LabelLists == { <<span>> : span \in LabelSpans }

(* named spans with and without an error status and an error message, with *)
(* absent, unparsable and parsable start and end times                     *)
RenderSpans ==
    { Record(<< <<Field.spanId, id>>, <<Field.parentSpanId, parent>>,
                <<Field.name, Str(chars.op)>>, <<Field.status, status>>,
                <<Field.labels, labels>>,
                <<Field.startTime, start>>, <<Field.endTime, end>> >>) :
        id \in { Str(chars.a), Str(chars.b) },
        parent \in { Undef, Str(chars.a) },
        status \in { Undef, Obj(<< <<Field.code, Num(5)>> >>) },
        labels \in { Undef, Obj(<< <<Label.errorDotMessage, Str(chars.boom)>> >>) },
        start \in { Undef, Str(chars.x), Str(instants.t0) },
        end \in { Undef, Str(chars.x), Str(instants.t1500) } }

(* one span, or a root with a valid duration and a second span *)
RenderLists ==
    { <<span>> : span \in RenderSpans }
    \cup { <<Record(<< <<Field.spanId, Str(chars.a)>>, <<Field.name, Str(chars.op)>>,
                        <<Field.startTime, Str(instants.t0)>>,
                        <<Field.endTime, Str(instants.t125500)>> >>), span>> :
             span \in RenderSpans }

InitWith(lists) ==
    /\ spans \in lists
    /\ projectId = "project"
    /\ traceId = "trace"
    /\ pc = "map"
    /\ idx = 1
    /\ traceSpans = <<>>
    /\ spanMap = <<>>
    /\ childSpans = <<>>
    /\ rootSpans = <<>>
    /\ stack = <<>>
    /\ totalDescendants = 0
    /\ result = NoResult
    /\ previous = NoPrevious
    /\ duration = <<>>
    /\ markdown = NoMarkdown

Init == InitWith(SpanLists(HierSpans, MaxSpans))

Spec == Init /\ [][Next]_vars

LiveInit == InitWith(SpanLists(HierSpans, MaxLiveSpans))

(* buildTraceHierarchy is synchronous code: once called it runs every step *)
FairSpec == LiveInit /\ [][Next]_vars /\ WF_vars(Next)

SortInit == InitWith(SortLists)

SortSpec == SortInit /\ [][Next]_vars

NormInit == InitWith(NormLists)

NormSpec == NormInit /\ [][Next]_vars

LabelInit == InitWith(LabelLists)

LabelSpec == LabelInit /\ [][Next]_vars

DurationInit == InitWith(TimedLists)

DurationSpec == DurationInit /\ [][DurationNext]_vars

RenderInit == InitWith(RenderLists)

RenderSpec == RenderInit /\ [][RenderNext]_vars

PairInit == InitWith(SpanLists(PairSpans, MaxPairSpans))

PairSpec == PairInit /\ [][Next]_vars

TwiceInit == InitWith(SpanLists(HierSpans, MaxSpans) \cup SortLists)

TwiceSpec == TwiceInit /\ [][TwiceNext]_vars

-----------------------------------------------------------------------------
(* Vocabulary of the properties.                                           *)

Objects == 1..Len(traceSpans)

Range(seq) == { seq[k] : k \in 1..Len(seq) }

(* how often the reference x occurs in the array seq *)
CountIn(seq, x) == Cardinality({ k \in 1..Len(seq) : seq[k] = x })

(* how often the object x occurs in the childSpans arrays of all objects *)
ChildPlacements(x) ==
    Cardinality({ pk \in Objects \X (1..Len(spans)) :
                    /\ pk[2] <= Len(childSpans[pk[1]])
                    /\ childSpans[pk[1]][pk[2]] = x })

RECURSIVE SumLen(_, _)
SumLen(arrays, i) ==
    IF i > Len(arrays) THEN 0 ELSE Len(arrays[i]) + SumLen(arrays, i + 1)

(* the objects reached from the set S by following childSpans downward *)
RECURSIVE Closure(_)
Closure(S) ==
    LET T == S \cup UNION { Range(childSpans[p]) : p \in S }
    IN  IF T = S THEN S ELSE Closure(T)

Descendants(i) == Closure(Range(childSpans[i]))

ReachableFromRoots == Closure(Range(result.rootSpans))

RawId(i) == Get(spans[i], Field.spanId)
RawParent(i) == Get(spans[i], Field.parentSpanId)

(* the raw parent id of span i names no span of the input *)
Dangling(i) == Truthy(RawParent(i)) /\ \A j \in 1..Len(spans) : RawId(j) # RawParent(i)

DuplicateIds == \E i, j \in 1..Len(spans) : i # j /\ RawId(i) = RawId(j)

(* the parent references of the input contain a cycle or a self reference *)
CyclicInput == \E i \in Objects : i \in Descendants(i)

Parsable(i) == ~GetTime(traceSpans[i].startTime).nan

-----------------------------------------------------------------------------
(* C1: after the link pass and in the result, every span object is placed  *)
(* exactly once, as an element of rootSpans or of one childSpans array,    *)
(* and the placements add up to the number of input spans.                 *)
C1_PlacedExactlyOnce ==
    pc \in {"sort", "count", "done"} =>
        /\ \A i \in 1..Len(spans) : CountIn(rootSpans, i) + ChildPlacements(i) = 1
        /\ Len(rootSpans) + SumLen(childSpans, 1) = Len(spans)

(* a finished call whose input has a dangling parent, a duplicate id and a *)
(* cyclic parent reference                                                 *)
C1_Witness ==
    /\ pc = "done"
    /\ \E i \in 1..Len(spans) : Dangling(i)
    /\ DuplicateIds
    /\ CyclicInput

(* C2: for a non-empty input, allSpans has one entry per input span and    *)
(* the span ids reached from rootSpans through childSpans are the input    *)
(* span ids, none reached more than once.                                  *)
C2_Completeness ==
    (pc = "done" /\ spans # <<>>) =>
        /\ Len(result.allSpans) = Len(spans)
        /\ { traceSpans[i].spanId : i \in ReachableFromRoots }
             = { traceSpans[i].spanId : i \in Objects }
        /\ \A i, j \in ReachableFromRoots :
             i # j => traceSpans[i].spanId # traceSpans[j].spanId

(* C3: a span is a root exactly if its parent id is empty or absent, or    *)
(* names no span of the input; no error is raised.                         *)
C3_RootCorrectness ==
    /\ pc # "threw"
    /\ pc = "done" =>
         \A i \in 1..Len(spans) :
            (i \in Range(result.rootSpans)) <=> (~Truthy(RawParent(i)) \/ Dangling(i))

(* a finished call with a dangling span among the roots and a span with a  *)
(* present parent that is no root                                          *)
C3_Witness ==
    /\ pc = "done"
    /\ \E i \in Range(result.rootSpans) : Dangling(i)
    /\ \E i \in Objects : Truthy(RawParent(i)) /\ i \notin Range(result.rootSpans)

(* C4: in the result no span is among its own descendants.                 *)
C4_NoSelfAncestor ==
    pc = "done" => \A i \in Objects : i \notin Descendants(i)

(* C5: every call of buildTraceHierarchy returns.                          *)
C5_Terminates == <>(pc = "done")

(* a returned call whose input parent references are cyclic *)
C5_Witness == pc = "done" /\ CyclicInput /\ Len(spans) > 1 /\ ~DuplicateIds

(* C6: children of one parent that have a parsable startTime are in        *)
(* non-decreasing startTime order, whatever the other children are.        *)
C6_ChildOrdering ==
    pc = "done" =>
        \A p \in Objects :
            \A k, l \in 1..Len(childSpans[p]) :
                (k < l /\ Parsable(childSpans[p][k]) /\ Parsable(childSpans[p][l]))
                    => GetTime(traceSpans[childSpans[p][k]].startTime).ms
                         <= GetTime(traceSpans[childSpans[p][l]].startTime).ms

(* C7: children of one parent that compare equal (an unparsable startTime  *)
(* compares equal to every other) keep their input-relative order.         *)
C7_EqualKeepOrder ==
    pc = "done" =>
        \A p \in Objects :
            \A k, l \in 1..Len(childSpans[p]) :
                (k < l /\ CompareStartTime(traceSpans[childSpans[p][k]],
                                           traceSpans[childSpans[p][l]]) = 0)
                    => childSpans[p][k] < childSpans[p][l]

(* C8: the conversion of a raw span never raises.                          *)
C8_NeverRaises == pc # "threw"

(* C9: every displayName of the result is a non-empty string.              *)
C9_DisplayNameNonEmpty ==
    pc = "done" =>
        \A i \in 1..Len(result.allSpans) :
            /\ result.allSpans[i].displayName.t = "string"
            /\ result.allSpans[i].displayName.s # <<>>

(* C10: allSpans has one entry per input span and its i-th entry is built  *)
(* from the i-th raw span, also where the sort pass reordered children.    *)
C10_AllSpansInputOrder ==
    pc = "done" =>
        /\ Len(result.allSpans) = Len(spans)
        /\ \A i \in 1..Len(spans) :
             /\ result.allSpans[i].spanId = Or(RawId(i), Str(<<>>))
             /\ result.allSpans[i].startTime
                  = Or(Get(spans[i], Field.startTime), Str(<<>>))
             /\ result.allSpans[i].parentSpanId = Or(RawParent(i), Undef)

(* a returned call in which the sort pass moved a later child ahead of an  *)
(* earlier one                                                             *)
C10_Witness ==
    /\ pc = "done"
    /\ \E p \in Objects :
         \E k, l \in 1..Len(childSpans[p]) :
            k < l /\ childSpans[p][k] > childSpans[p][l]

RawStatusCode(i) == Get(Get(spans[i], Field.status), Field.code)
RawLabel(i, key) == Get(Get(spans[i], Field.labels), key)

(* C12: a span whose status.code is 0 is OK and one whose status.code is   *)
(* greater than 0 is ERROR, whatever error and HTTP status labels it has.  *)
C12_StatusFieldFirst ==
    pc = "done" =>
        \A i \in 1..Len(spans) :
            /\ RawStatusCode(i) = Num(0) => result.allSpans[i].status = "OK"
            /\ (RawStatusCode(i).t = "number" /\ RawStatusCode(i).n > 0)
                  => result.allSpans[i].status = "ERROR"

(* a returned span with status.code 0 and a non-empty error label *)
C12_Witness ==
    /\ pc = "done"
    /\ \E i \in 1..Len(spans) :
         /\ RawStatusCode(i) = Num(0)
         /\ Truthy(RawLabel(i, Label.error))
         /\ result.allSpans[i].status = "OK"

(* the explicit status field of raw span i sets no status *)
FieldGivesNone(i) == ~(RawStatusCode(i).t = "number" /\ RawStatusCode(i).n >= 0)

(* the '/http/status_code' label of raw span i as a number, -1 if it is    *)
(* absent or not made of digits only                                       *)
NumericLabelCode(i) ==
    LET str == JsString(RawLabel(i, Label.httpStatusCode))
    IN  IF RawLabel(i, Label.httpStatusCode) # Undef /\ str # <<>>
           /\ \A k \in 1..Len(str) : IsDigit(str[k])
        THEN DigitsValue(str, 1, 0) ELSE -1

(* the integer of the leading digits of the '/http/status_code' label of   *)
(* raw span i, -1 if the label is absent or starts with no digit           *)
LeadingLabelCode(i) ==
    LET str == JsString(RawLabel(i, Label.httpStatusCode))
    IN  IF RawLabel(i, Label.httpStatusCode) # Undef /\ str # <<>> /\ IsDigit(str[1])
        THEN DigitsValue(str, 1, 0) ELSE -1

StatusByCode(code) ==
    IF code >= 400 THEN "ERROR" ELSE IF code >= 200 THEN "OK" ELSE "UNSPECIFIED"

(* C13: where the status field sets no status, a span with an              *)
(* '/error/message' or 'error' label key is ERROR; otherwise a numeric     *)
(* '/http/status_code' label of 400 or more is ERROR, one in 200..399 is   *)
(* OK; every other span is UNSPECIFIED.                                    *)
C13_LabelStatus ==
    pc = "done" =>
        \A i \in 1..Len(spans) :
            FieldGivesNone(i) =>
                result.allSpans[i].status =
                    IF RawLabel(i, Label.errorMessage) # Undef
                       \/ RawLabel(i, Label.error) # Undef
                    THEN "ERROR"
                    ELSE StatusByCode(NumericLabelCode(i))

(* C13 amended: where the status field sets no status, a span with a       *)
(* non-empty '/error/message' or 'error' label is ERROR; otherwise the     *)
(* integer that starts the '/http/status_code' label decides: 400 or more  *)
(* is ERROR, 200..399 is OK; every other span is UNSPECIFIED.              *)
C13_LabelStatusNonEmpty ==
    pc = "done" =>
        \A i \in 1..Len(spans) :
            FieldGivesNone(i) =>
                result.allSpans[i].status =
                    IF Truthy(RawLabel(i, Label.errorMessage))
                       \/ Truthy(RawLabel(i, Label.error))
                    THEN "ERROR"
                    ELSE StatusByCode(LeadingLabelCode(i))

(* a returned span without status field, with a non-empty error label and  *)
(* the HTTP status label 200                                               *)
C13_Witness ==
    /\ pc = "done"
    /\ \E i \in 1..Len(spans) :
         /\ Get(spans[i], Field.status) = Undef
         /\ Truthy(RawLabel(i, Label.error))
         /\ RawLabel(i, Label.httpStatusCode) = Str(chars.ok)
         /\ result.allSpans[i].status = "ERROR"

RawAttribute(i, key) ==
    Get(Get(Get(spans[i], Field.attributes), Field.attributeMap), key)

(* the value of the attribute key of the i-th canonical span *)
Attribute(i, key) == Lookup(result.allSpans[i].attributes, key, 1)

AttributeKeys == { chars.custom, chars.rawExtra }

(* the attribute key is written from the label, the attributeMap entry or  *)
(* the other top-level field of raw span i                                 *)
FromLabel(i, key) == ~IsNullish(RawLabel(i, key))
FromAttributeMap(i, key) == ~IsNullish(RawAttribute(i, key))
FromOtherField(i, key) ==
    key = chars.rawExtra /\ ~IsNullish(Get(spans[i], chars.extra))

(* C14: of the sources that write an attribute key, the earliest keeps its *)
(* value: labels before attributes.attributeMap before other fields.       *)
C14_FirstWriterWins ==
    pc = "done" =>
        \A i \in 1..Len(spans) : \A key \in AttributeKeys :
            Attribute(i, key) =
                IF FromLabel(i, key) THEN Str(JsString(RawLabel(i, key)))
                ELSE IF FromAttributeMap(i, key)
                THEN TypedValue(RawAttribute(i, key))
                ELSE IF FromOtherField(i, key)
                THEN RawValue(Get(spans[i], chars.extra))
                ELSE Undef

(* C14 amended: of the sources that write an attribute key, the latest     *)
(* overwrites the value: other fields over attributes.attributeMap over    *)
(* labels.                                                                 *)
C14_LastWriterWins ==
    pc = "done" =>
        \A i \in 1..Len(spans) : \A key \in AttributeKeys :
            Attribute(i, key) =
                IF FromOtherField(i, key)
                THEN RawValue(Get(spans[i], chars.extra))
                ELSE IF FromAttributeMap(i, key)
                THEN TypedValue(RawAttribute(i, key))
                ELSE IF FromLabel(i, key) THEN Str(JsString(RawLabel(i, key)))
                ELSE Undef

(* a returned span with one key in the labels and in the attributeMap, and *)
(* another key in the labels and from a top-level field                    *)
C14_Witness ==
    /\ pc = "done"
    /\ \E i \in 1..Len(spans) :
         /\ FromLabel(i, chars.custom) /\ FromAttributeMap(i, chars.custom)
         /\ FromLabel(i, chars.rawExtra) /\ FromOtherField(i, chars.rawExtra)
         /\ Attribute(i, chars.custom) # Str(JsString(RawLabel(i, chars.custom)))

RawName(i) == Get(spans[i], Field.name)
RawDisplayName(i) == Get(spans[i], Field.displayName)

(* the name str, with 'HTTP ' in front exactly if it begins with '/' *)
Prefixed(str) == IF StartsWith(str, <<"/">>) THEN Text.http \o str ELSE str

NonEmptyString(v) == v.t = "string" /\ v.s # <<>>

(* C15: a non-empty raw name is the displayName (with 'HTTP ' in front if  *)
(* it begins with '/') whatever the other fields and the labels hold;      *)
(* without it a non-empty displayName.value is, and without that a string  *)
(* displayName.                                                            *)
C15_NamePrecedence ==
    pc = "done" =>
        \A i \in 1..Len(spans) :
            LET d == result.allSpans[i].displayName
            IN  IF NonEmptyString(RawName(i))
                THEN d = Str(Prefixed(RawName(i).s))
                ELSE IF Truthy(RawName(i)) THEN TRUE
                ELSE IF NonEmptyString(Get(RawDisplayName(i), Field.value))
                THEN d = Str(Prefixed(Get(RawDisplayName(i), Field.value).s))
                ELSE IF Truthy(Get(RawDisplayName(i), Field.value)) THEN TRUE
                ELSE RawDisplayName(i).t = "string"
                        => d = Str(Prefixed(RawDisplayName(i).s))

(* the display names the labels of raw span i offer, in the listed order:  *)
(* pairs of the label that must be there and the name it gives             *)
LabelNames(i) ==
    LET L(key) == RawLabel(i, key).s
        First30(str) == SubSeq(str, 1, IF Len(str) < 30 THEN Len(str) ELSE 30)
    IN  << <<Label.httpPath, L(Label.httpMethod) \o <<" ">> \o L(Label.httpPath)>>,
           <<Label.httpUrl, <<"H", "T", "T", "P", " ">> \o L(Label.httpUrl)>>,
           <<Label.httpStatusCode, Text.httpStatus \o L(Label.httpStatusCode)>>,
           <<Label.component, Text.component \o L(Label.component)>>,
           <<Label.dbStatement,
             (IF L(Label.dbSystem) = <<>> THEN <<"D", "B">> ELSE L(Label.dbSystem))
                \o <<":", " ">> \o First30(L(Label.dbStatement))
                \o <<".", ".", ".">> >>,
           <<Label.agent, Text.agent \o L(Label.agent)>>,
           <<Label.gaeModule, Text.gaeModule \o L(Label.gaeModule)>>,
           <<Label.gaeVersion, Text.gaeVersion \o L(Label.gaeVersion)>>,
           <<Label.gceInstance, Text.gceInstance \o L(Label.gceInstance)>> >>

(* the positions of LabelNames(i) whose label has a non-empty value *)
Matches(i) == { k \in 1..Len(LabelNames(i)) : Truthy(RawLabel(i, LabelNames(i)[k][1])) }

NoNameFields(i) == RawName(i) = Undef /\ RawDisplayName(i) = Undef

(* C16: the displayName of a span without name fields is the name of the   *)
(* first label of the list that has a non-empty value: '/http/path' (with  *)
(* the method in front), '/http/url', '/http/status_code', '/component',   *)
(* '/db/statement' (30 characters and '...', after '/db/system' or 'DB'),  *)
(* agent, GAE module, GAE version, GCE instance.                           *)
C16_LabelOrder ==
    pc = "done" =>
        \A i \in 1..Len(spans) :
            (NoNameFields(i) /\ Matches(i) # {}) =>
                LET k == CHOOSE m \in Matches(i) : \A n \in Matches(i) : m <= n
                IN  result.allSpans[i].displayName = Str(LabelNames(i)[k][2])

(* a returned span without name fields named 'GET /users' although its     *)
(* labels also hold a URL, a component and a statement longer than 30      *)
C16_Witness ==
    /\ pc = "done"
    /\ \E i \in 1..Len(spans) :
         /\ NoNameFields(i)
         /\ Truthy(RawLabel(i, Label.httpUrl))
         /\ Truthy(RawLabel(i, Label.component))
         /\ Len(RawLabel(i, Label.dbStatement).s) > 30
         /\ result.allSpans[i].displayName
              = Str(<<"G", "E", "T", " ", "/", "u", "s", "e", "r", "s">>)

(* the last span of the input whose id is the parent id of span i *)
LastWithId(id) ==
    CHOOSE j \in 1..Len(spans) :
        /\ RawId(j) = id
        /\ \A k \in 1..Len(spans) : RawId(k) = id => k <= j

(* C17: a span whose parent id is shared by several spans is a child of    *)
(* the last of them, a span followed by another with its id has no         *)
(* children, and every span is in allSpans.                                *)
C17_LastDuplicateWins ==
    pc = "done" =>
        /\ \A i \in 1..Len(spans) :
             (Truthy(RawParent(i)) /\ ~Dangling(i))
                => CountIn(childSpans[LastWithId(RawParent(i))], i) = 1
        /\ \A j, k \in 1..Len(spans) :
             (j < k /\ RawId(j) = RawId(k)) => childSpans[j] = <<>>
        /\ Len(result.allSpans) = Len(spans)
        /\ \A i \in 1..Len(spans) :
             result.allSpans[i].spanId = Or(RawId(i), Str(<<>>))

(* a returned call in which a span is a child of the second of two spans   *)
(* that share its parent id                                                *)
C17_Witness ==
    /\ pc = "done"
    /\ \E j, k, i \in 1..Len(spans) :
         /\ j < k /\ i # j /\ i # k
         /\ Truthy(RawId(j)) /\ RawId(j) = RawId(k)
         /\ RawParent(i) = RawId(j)
         /\ i \in Range(childSpans[k])

(* C18: rootSpans holds the roots in input order at every step of the call *)
(* and in the result, whatever their start times are.                      *)
C18_RootsInInputOrder ==
    /\ \A k, l \in 1..Len(rootSpans) : k < l => rootSpans[k] < rootSpans[l]
    /\ pc = "done" =>
         /\ \A k, l \in 1..Len(result.rootSpans) :
              k < l => result.rootSpans[k] < result.rootSpans[l]
         /\ Range(result.rootSpans)
              = { i \in 1..Len(spans) : ~Truthy(RawParent(i)) \/ Dangling(i) }

(* a returned call with a root that starts later than a root after it *)
C18_Witness ==
    /\ pc = "done"
    /\ \E k, l \in 1..Len(result.rootSpans) :
         /\ k < l
         /\ Parsable(result.rootSpans[k]) /\ Parsable(result.rootSpans[l])
         /\ GetTime(traceSpans[result.rootSpans[k]].startTime).ms
              > GetTime(traceSpans[result.rootSpans[l]].startTime).ms
         /\ Dangling(result.rootSpans[l])

(* C19: a call with an empty span list raises nothing and returns the      *)
(* given traceId and projectId with no rootSpans and no allSpans.          *)
C19_EmptyInput ==
    spans = <<>> =>
        /\ pc # "threw"
        /\ pc = "done" =>
             /\ result.traceId = traceId
             /\ result.projectId = projectId
             /\ result.rootSpans = <<>>
             /\ result.allSpans = <<>>

(* the call with the empty span list has returned *)
C19_Witness == pc = "done" /\ spans = <<>> /\ result # NoResult

AllDigits(str) == str # <<>> /\ \A k \in 1..Len(str) : IsDigit(str[k])

(* digits, a point and two digits *)
IsFixed2(str) ==
    /\ Len(str) >= 4
    /\ str[Len(str) - 2] = "."
    /\ AllDigits(SubSeq(str, 1, Len(str) - 3))
    /\ AllDigits(SubSeq(str, Len(str) - 1, Len(str)))

(* '<d>ms' for an integer d *)
IsMillisecondsForm(str) ==
    /\ Len(str) >= 3
    /\ SubSeq(str, Len(str) - 1, Len(str)) = <<"m", "s">>
    /\ LET body == SubSeq(str, 1, Len(str) - 2)
       IN  AllDigits(body) \/ (body[1] = "-" /\ AllDigits(Tail(body)))

(* seconds with two decimals and 's' *)
IsSecondsForm(str) ==
    Len(str) >= 5 /\ str[Len(str)] = "s" /\ IsFixed2(SubSeq(str, 1, Len(str) - 1))

(* whole minutes, 'm ', and the remaining seconds with two decimals *)
IsMinutesForm(str) ==
    \E k \in 2..(Len(str) - 1) :
        /\ str[k] = "m" /\ str[k + 1] = " "
        /\ AllDigits(SubSeq(str, 1, k - 1))
        /\ IsSecondsForm(SubSeq(str, k + 2, Len(str)))

(* the times calculateDuration was given *)
GivenStart == GetTime(result.allSpans[1].startTime)
GivenEnd == GetTime(result.allSpans[1].endTime)

(* C20: a duration below 1000 ms is written '<d>ms', one from 1000 ms and  *)
(* below 60000 ms as seconds with two decimals, one from 60000 ms as whole *)
(* minutes and seconds with two decimals; whatever the two timestamps are  *)
(* (equal, reversed, unparsable) the string has one of these three forms.  *)
C20_DurationForms ==
    pc = "formatted" =>
        /\ \/ IsMillisecondsForm(duration)
           \/ IsSecondsForm(duration)
           \/ IsMinutesForm(duration)
        /\ (~GivenStart.nan /\ ~GivenEnd.nan) =>
              LET d == GivenEnd.ms - GivenStart.ms
              IN  /\ d < 1000 => duration = JsString(Num(d)) \o <<"m", "s">>
                  /\ (1000 <= d /\ d < 60000) => IsSecondsForm(duration)
                  /\ d >= 60000 => IsMinutesForm(duration)

StringFields(i) ==
    { k \in 1..Len(possibleNameFields) :
        NonEmptyString(Get(spans[i], possibleNameFields[k])) }

RawOperationName(i) == Get(Get(spans[i], Field.operation), Field.name)

(* C23: a span without name fields and labels that has operation.name is   *)
(* named 'Operation: <name>' whatever operationName, description, type,    *)
(* method, rpcName and kind hold; without operation.name it is named after *)
(* the first of these fields, in this order, that holds a string.          *)
C23_AlternativeOrder ==
    pc = "done" =>
        \A i \in 1..Len(spans) :
            (NoNameFields(i) /\ Get(spans[i], Field.labels) = Undef) =>
                IF NonEmptyString(RawOperationName(i))
                THEN result.allSpans[i].displayName
                        = Str(Text.operation \o RawOperationName(i).s)
                ELSE StringFields(i) # {} =>
                        LET k == CHOOSE m \in StringFields(i) :
                                    \A n \in StringFields(i) : m <= n
                            field == possibleNameFields[k]
                        IN  result.allSpans[i].displayName
                                = Str(field \o <<":", " ">> \o Get(spans[i], field).s)

RawKind(i) == Get(spans[i], Field.kind)
RawSpanKind(i) == Get(spans[i], Field.spanKind)

(* the kind the labels of raw span i encode, Undef if they encode none *)
LabelKind(i) ==
    IF Truthy(RawLabel(i, Label.spanKindSlash)) THEN RawLabel(i, Label.spanKindSlash)
    ELSE IF Truthy(RawLabel(i, Label.spanKindDot)) THEN RawLabel(i, Label.spanKindDot)
    ELSE Undef

NeverNullOrEmpty(v) == v # Null /\ v # Undef /\ v # Str(<<>>)

(* C24: the canonical kind is the raw kind where the span has one, also    *)
(* where that is 'UNSPECIFIED'; without it the spanKind, without that the  *)
(* kind of the labels '/span/kind' and 'span.kind', else 'UNSPECIFIED';    *)
(* it is never null or empty.                                              *)
C24_KindPrecedence ==
    pc = "done" =>
        \A i \in 1..Len(spans) :
            /\ NeverNullOrEmpty(result.allSpans[i].kind)
            /\ result.allSpans[i].kind =
                  IF Truthy(RawKind(i)) THEN RawKind(i)
                  ELSE IF Truthy(RawSpanKind(i)) THEN RawSpanKind(i)
                  ELSE IF LabelKind(i) # Undef THEN LabelKind(i)
                  ELSE Str(Text.unspecified)

(* C24 amended: the canonical kind is the raw kind where the span has one  *)
(* other than 'UNSPECIFIED', without it the spanKind other than            *)
(* 'UNSPECIFIED'; where neither gives one (absent, empty or 'UNSPECIFIED') *)
(* it is the kind of the labels '/span/kind' and 'span.kind', else         *)
(* 'UNSPECIFIED'; it is never null or empty.                               *)
C24_KindUnlessUnspecified ==
    pc = "done" =>
        \A i \in 1..Len(spans) :
            LET fromFields == IF Truthy(RawKind(i)) THEN RawKind(i)
                              ELSE RawSpanKind(i)
            IN  /\ NeverNullOrEmpty(result.allSpans[i].kind)
                /\ result.allSpans[i].kind =
                      IF Truthy(fromFields) /\ fromFields # Str(Text.unspecified)
                      THEN fromFields
                      ELSE IF LabelKind(i) # Undef THEN LabelKind(i)
                      ELSE Str(Text.unspecified)

(* a returned span whose raw kind is 'UNSPECIFIED' and whose labels encode *)
(* a kind                                                                  *)
C24_Witness ==
    /\ pc = "done"
    /\ \E i \in 1..Len(spans) :
         /\ RawKind(i) = Str(Text.unspecified)
         /\ RawSpanKind(i) = Str(chars.client)
         /\ LabelKind(i) = Str(chars.consumer)
         /\ result.allSpans[i].kind = Str(chars.consumer)

(* the first typed value an attributeMap entry holds, Undef if it holds    *)
(* none                                                                    *)
FirstTypedValue(entry) ==
    IF Get(entry, Field.stringValue) # Undef THEN Get(entry, Field.stringValue)
    ELSE IF Get(entry, Field.intValue) # Undef THEN Get(entry, Field.intValue)
    ELSE Get(entry, Field.boolValue)

(* C25: the canonical attribute of an attributeMap entry is its first      *)
(* typed value among stringValue, intValue and boolValue as a string:      *)
(* intValue 0 gives '0' and boolValue false gives 'false'.                 *)
C25_TypedValueAsString ==
    pc = "done" =>
        \A i \in 1..Len(spans) :
            (FromAttributeMap(i, chars.custom)
             /\ FirstTypedValue(RawAttribute(i, chars.custom)) # Undef)
                => Attribute(i, chars.custom)
                     = Str(JsString(FirstTypedValue(RawAttribute(i, chars.custom))))

(* no step of the name resolution finds a name for the raw span i *)
NothingNamesIt(i) ==
    /\ NoNameFields(i)
    /\ Get(spans[i], Field.labels) = Undef
    /\ ~Truthy(RawOperationName(i))
    /\ StringFields(i) = {}

(* C26: when every resolution step fails, the displayName is a placeholder *)
(* that embeds the spanId, for a span whose spanId is empty too.           *)
C26_PlaceholderEmbedsId ==
    pc = "done" =>
        \A i \in 1..Len(spans) :
            NothingNamesIt(i) =>
                result.allSpans[i].displayName
                    = Str(Text.unknownSpanId \o result.allSpans[i].spanId.s \o Text.close)

(* C26 as the code has it: the placeholder embeds the spanId when the      *)
(* spanId is non-empty, and is the bare 'Unknown Span' when it is empty.   *)
C26_PlaceholderEmbedsNonEmptyId ==
    pc = "done" =>
        \A i \in 1..Len(spans) :
            NothingNamesIt(i) =>
                result.allSpans[i].displayName
                    = IF result.allSpans[i].spanId = Str(<<>>)
                      THEN Str(Text.unknownSpan)
                      ELSE Str(Text.unknownSpanId \o result.allSpans[i].spanId.s
                                  \o Text.close)

(* an opaque span with the empty spanId returned as 'Unknown Span' *)
C26_Witness ==
    /\ pc = "done"
    /\ \E i \in 1..Len(spans) :
         /\ NothingNamesIt(i)
         /\ RawId(i) = Str(<<>>)
         /\ Get(spans[i], Field.operationName) = Num(7)
         /\ result.allSpans[i].spanId = Str(<<>>)
         /\ result.allSpans[i].displayName = Str(Text.unknownSpan)

(* the input span that the raw parent id of span i names, 0 if none *)
RawParentIndex(i) ==
    IF Truthy(RawParent(i)) /\ \E j \in 1..Len(spans) : RawId(j) = RawParent(i)
    THEN CHOOSE j \in 1..Len(spans) : RawId(j) = RawParent(i)
    ELSE 0

(* the n-th span up the chain of raw parent references from i, 0 if the    *)
(* chain ends before *)
RECURSIVE Up(_, _)
Up(i, n) ==
    IF n = 0 \/ i = 0 THEN i ELSE Up(RawParentIndex(i), n - 1)

(* the raw parent references lead from span i back to span i *)
OnRawCycle(i) == \E n \in 1..Len(spans) : Up(i, n) = i

(* C27: with unique span ids, every span on a cycle of parent references   *)
(* is once in the childSpans of its declared parent and its own childSpans *)
(* holds exactly the spans that declare it as parent; allSpans keeps every *)
(* span and no error is raised.                                            *)
C27_CyclePolicy ==
    (~DuplicateIds /\ \E i \in 1..Len(spans) : OnRawCycle(i)) =>
        /\ pc # "threw"
        /\ pc = "done" =>
             /\ Len(result.allSpans) = Len(spans)
             /\ \A i \in 1..Len(spans) :
                   OnRawCycle(i) =>
                     /\ CountIn(childSpans[RawParentIndex(i)], i) = 1
                     /\ Range(childSpans[i])
                          = { c \in 1..Len(spans) : RawParentIndex(c) = i }
                     /\ Len(childSpans[i])
                          = Cardinality({ c \in 1..Len(spans) : RawParentIndex(c) = i })

(* a result for three spans with unique ids: two that name each other as   *)
(* parent, one of them with a second child outside the cycle               *)
C27_Witness ==
    /\ pc = "done"
    /\ ~DuplicateIds
    /\ \E i, j, k \in 1..Len(spans) :
         /\ i # j /\ k \notin {i, j}
         /\ RawParentIndex(i) = j /\ RawParentIndex(j) = i
         /\ RawParentIndex(k) = i
         /\ Range(childSpans[i]) = {j, k}
         /\ childSpans[j] = <<i>>

(* how often a walk from the roots down through childSpans comes to the    *)
(* object x: as a root, or as a child of an object the walk comes to       *)
WalkArrivals(x) ==
    CountIn(rootSpans, x)
      + Cardinality({ pk \in Closure(Range(rootSpans)) \X (1..Len(spans)) :
                        /\ pk[2] <= Len(childSpans[pk[1]])
                        /\ childSpans[pk[1]][pk[2]] = x })

(* C28: what is reachable from rootSpans is a finite forest: a walk from   *)
(* the roots through childSpans comes to no span object twice and to no    *)
(* object below itself, so the descendant count never has an object twice  *)
(* on its call stack and returns, for each root, the number of objects     *)
(* below it.                                                               *)
C28_ReachableForest ==
    /\ pc \in {"count", "done"} =>
          \A x \in Closure(Range(rootSpans)) :
              WalkArrivals(x) = 1 /\ x \notin Descendants(x)
    /\ pc = "count" =>
          /\ Len(stack) <= Len(spans)
          /\ \A k, l \in 1..Len(stack) : k # l => stack[k].s # stack[l].s
          /\ \A k \in 1..Len(stack) : stack[k].s \in Closure(Range(rootSpans))
    /\ (pc \in {"count", "done"} /\ stack = <<>> /\ idx > 1) =>
          totalDescendants = Cardinality(Descendants(rootSpans[idx - 1]))
    /\ pc = "done" => result.rootSpans = rootSpans

(* a result for an input with duplicate ids and a cyclic parent reference  *)
(* with a root, and a span on the cycle that no walk from the roots        *)
(* comes to                                                                *)
C28_Witness ==
    /\ pc = "done"
    /\ DuplicateIds
    /\ result.rootSpans # <<>>
    /\ \E i \in Objects : i \in Descendants(i) /\ i \notin ReachableFromRoots

(* C29: in every result each child c of a span p has a non-empty           *)
(* parentSpanId equal to the spanId of p, no root is in any childSpans,    *)
(* and the sort pass only permutes each childSpans array.                  *)
C29_ParentChildConsistent ==
    /\ [](pc \in {"sort", "count", "done"} =>
            /\ \A p \in Objects :
                  \A k \in 1..Len(childSpans[p]) :
                      /\ traceSpans[childSpans[p][k]].parentSpanId # Str(<<>>)
                      /\ traceSpans[childSpans[p][k]].parentSpanId
                           = traceSpans[p].spanId
            /\ \A r \in Range(rootSpans) : ChildPlacements(r) = 0)
    /\ [][pc = "sort" =>
            \A p \in Objects :
                /\ Len(childSpans'[p]) = Len(childSpans[p])
                /\ \A c \in Objects :
                      CountIn(childSpans'[p], c) = CountIn(childSpans[p], c)]_vars

(* a result whose root has four children, two with the same start time and *)
(* one with a start time that does not parse, in another order than in the *)
(* input                                                                   *)
C29_Witness ==
    /\ pc = "done"
    /\ \E p \in Range(result.rootSpans) :
         /\ Len(childSpans[p]) = 4
         /\ \E k \in 1..4 : ~Parsable(childSpans[p][k])
         /\ \E k, l \in 1..4 :
              /\ k < l
              /\ traceSpans[childSpans[p][k]].startTime
                   = traceSpans[childSpans[p][l]].startTime
         /\ \E k, l \in 1..4 : k < l /\ childSpans[p][k] > childSpans[p][l]

(* the canonical span i has status ERROR and a start or end time that is   *)
(* absent or does not parse                                                *)
FailedWithoutTime(i) ==
    /\ result.allSpans[i].status = "ERROR"
    /\ GetTime(result.allSpans[i].startTime).nan
         \/ GetTime(result.allSpans[i].endTime).nan

(* C30: formatTraceData returns a report without raising for every         *)
(* TraceData that buildTraceHierarchy returns, also when a span with       *)
(* status ERROR has an absent or unparsable startTime or endTime.          *)
C30_RendersWithoutRaising == pc # "raised"

====
